---------------------------- MODULE Spec2Model ----------------------------
(***************************************************************************)
(* Model of the portfolio dev server (src/dev-server/server.js): the       *)
(* record store (projects.json, project-details.json), the detail page     *)
(* renderer, the listing section patcher of index.html, the file           *)
(* operations on generated detail pages and the detail editor of the       *)
(* admin page that the server serves.                                      *)
(*                                                                         *)
(* Representation of text.  A string of the program is a sequence of       *)
(* chunks (TLA+ strings); concatenation is \o on sequences and a marker    *)
(* the code searches for (indexOf, includes) is one chunk, so an offset    *)
(* of the code is an index into the chunk sequence.                        *)
(*                                                                         *)
(* Representation of paths.  A path string is the sequence of its          *)
(* segments, i.e. the string split on "/": "./project-3.html" is           *)
(* <<".", "project-3.html">>, "" is <<"">>, "./" is <<".", "">> and        *)
(* "/a" is <<"", "a">>.  The empty sequence stands for null/undefined.     *)
(* A segment is a record [pre, num, post]: the text before its digit run,  *)
(* the value of the digit run (<<>> if there is none) and the text after.  *)
(***************************************************************************)
EXTENDS Integers, Sequences, FiniteSets, TLC

VARIABLES
  projectsFile,   \* data/projects.json: [present, projects]
  detailsFile,    \* data/project-details.json: [present, details]
  files,          \* the other files on disk: absolute location -> content
  indexHtml,      \* index.html: [present, text]
  clock,          \* Date.now(); the number of calls made when one function runs alone
  last,           \* the last completed operation: what it was given and answered
  requests        \* the handlers between two awaits, each with its position and
                  \* locals; the admin form while it is open

vars == <<projectsFile, detailsFile, files, indexHtml, clock, last, requests>>

---------------------------------------------------------------------------
(* Naming a value                                                          *)

\* The element of a one-element set.  One({e(x) : x \in {v}}) is e with v
\* evaluated once and named x, as a const declaration of the program does.
One(S) == CHOOSE x \in S : TRUE

---------------------------------------------------------------------------
(* Path strings                                                            *)

Seg(s) == [pre |-> s, num |-> <<>>, post |-> ""]
NumSeg(p, n, q) == [pre |-> p, num |-> <<n>>, post |-> q]

NullPath == <<>>
EmptyPath == <<Seg("")>>

\* JavaScript truthiness of a string-or-undefined path value.
Truthy(path) == path # NullPath /\ path # EmptyPath

\* ROOT_DIR = path.join(__dirname, '..'): the directory that holds dev-server/.
ROOT_DIR == <<Seg("portfolio-website")>>

\* String.prototype.trim on a path string.  The only segment of the
\* vocabulary that holds whitespace is the all-blank segment " ".
Trim(path) ==
  [i \in 1..Len(path) |->
     IF (i = 1 \/ i = Len(path)) /\ path[i] = Seg(" ") THEN Seg("") ELSE path[i]]

\* .replace(/^\.\//, '')
StripDotSlash(path) ==
  IF Len(path) >= 2 /\ path[1] = Seg(".") THEN Tail(path) ELSE path

normalizeRelativePath(relativePath) ==
  IF relativePath = NullPath THEN EmptyPath
  ELSE One({StripDotSlash(trimmed) : trimmed \in {Trim(relativePath)}})

\* The path without its trailing slashes.
RECURSIVE DropTrailingEmpty(_)
DropTrailingEmpty(path) ==
  IF Len(path) > 0 /\ path[Len(path)] = Seg("")
  THEN DropTrailingEmpty(SubSeq(path, 1, Len(path) - 1))
  ELSE path

\* path.basename: trailing slashes are dropped, then the last segment.
Basename(path) ==
  One({IF q = <<>> THEN Seg("") ELSE q[Len(q)] : q \in {DropTrailingEmpty(path)}})

\* The /i flag on the texts of the vocabulary.
LowerCase(s) ==
  CASE s = "PROJECT-" -> "project-"
    [] s = ".HTML" -> ".html"
    [] OTHER -> s

\* /^project-\d+\.html$/i on one segment.
MatchesGeneratedName(seg) ==
  /\ LowerCase(seg.pre) = "project-"
  /\ Len(seg.num) = 1
  /\ LowerCase(seg.post) = ".html"

\* /project-(\d+)\.html/ on one segment (no anchors, case-sensitive).
MatchesProjectNumber(seg) ==
  /\ seg.pre \in {"project-", "myproject-"}
  /\ Len(seg.num) = 1
  /\ seg.post \in {".html", ".html.bak"}

\* The test of isGeneratedProjectDetailHtml without the $ anchor.
MutUnanchoredGenerated(relativePath) ==
  \E normalized \in {normalizeRelativePath(relativePath)} :
    /\ normalized # EmptyPath
    /\ \E base \in {Basename(normalized)} :
         /\ LowerCase(base.pre) = "project-"
         /\ Len(base.num) = 1
         /\ base.post \in {".html", ".HTML", ".html.bak"}

isGeneratedProjectDetailHtml(relativePath) ==
  \E normalized \in {normalizeRelativePath(relativePath)} :
    /\ normalized # EmptyPath
    /\ \E base \in {Basename(normalized)} : MatchesGeneratedName(base)

\* path.normalize of an absolute path: the location it names.
RECURSIVE NormAbs(_, _)
NormAbs(stack, rest) ==
  IF rest = <<>> THEN stack
  ELSE IF Head(rest) = Seg("") \/ Head(rest) = Seg(".")
       THEN NormAbs(stack, Tail(rest))
       ELSE IF Head(rest) = Seg("..")
            THEN NormAbs(IF stack = <<>> THEN <<>>
                         ELSE SubSeq(stack, 1, Len(stack) - 1), Tail(rest))
            ELSE NormAbs(Append(stack, Head(rest)), Tail(rest))

\* path.join(dir, rel): rel is appended, whatever it starts with.
PathJoin(dir, rel) == NormAbs(dir, rel)

\* path.resolve(dir, rel): an absolute rel replaces dir.
PathResolve(dir, rel) ==
  IF Len(rel) >= 2 /\ rel[1] = Seg("") THEN NormAbs(<<>>, rel)
  ELSE NormAbs(dir, rel)

RECURSIVE CommonPrefixLen(_, _)
CommonPrefixLen(a, b) ==
  IF a # <<>> /\ b # <<>> /\ Head(a) = Head(b)
  THEN 1 + CommonPrefixLen(Tail(a), Tail(b))
  ELSE 0

\* path.relative(from, to), as a path string.
PathRelative(from, to) ==
  One({IF c = Len(from) /\ c = Len(to) THEN EmptyPath
       ELSE [i \in 1..(Len(from) - c) |-> Seg("..")] \o SubSeq(to, c + 1, Len(to)) :
       c \in {CommonPrefixLen(from, to)}})

\* The containment test left out.
MutNoContainmentCheck(relative) == FALSE

\* relCheck.startsWith('..') || path.isAbsolute(relCheck)
IsUnsafePath(relative) ==
  \E resolved \in {PathResolve(ROOT_DIR, relative)} :
    \E relCheck \in {PathRelative(ROOT_DIR, resolved)} :
      \/ relCheck[1].pre = ".."
      \/ (Len(relCheck) >= 2 /\ relCheck[1] = Seg(""))

---------------------------------------------------------------------------
(* Files on disk                                                           *)

Exists(fs, loc) == loc \in DOMAIN fs

WriteFile(fs, loc, content) ==
  [l \in DOMAIN fs \cup {loc} |-> IF l = loc THEN content ELSE fs[l]]

RemoveFile(fs, loc) == [l \in DOMAIN fs \ {loc} |-> fs[l]]

\* An unlink whose failure is ignored.
MutUnlinkIgnoresMissing(fs, resolved) ==
  [files |-> RemoveFile(fs, resolved), result |-> [deleted |-> TRUE, reason |-> ""]]

\* fs.unlink inside the try/catch: ENOENT is reported as "not-found".
Unlink(fs, resolved) ==
  IF Exists(fs, resolved)
  THEN [files |-> RemoveFile(fs, resolved),
        result |-> [deleted |-> TRUE, reason |-> ""]]
  ELSE [files |-> fs, result |-> [deleted |-> FALSE, reason |-> "not-found"]]

\* [files, result]: the files after the call and the object returned.
deleteGeneratedProjectDetailHtmlFile(fs, detailPagePath) ==
  One({IF relative = EmptyPath
       THEN [files |-> fs, result |-> [deleted |-> FALSE, reason |-> "missing"]]
       ELSE IF ~isGeneratedProjectDetailHtml(relative)
       THEN [files |-> fs, result |-> [deleted |-> FALSE, reason |-> "not-generated"]]
       ELSE IF IsUnsafePath(relative)
       THEN [files |-> fs, result |-> [deleted |-> FALSE, reason |-> "unsafe-path"]]
       ELSE One({Unlink(fs, resolved) : resolved \in {PathResolve(ROOT_DIR, relative)}}) :
       relative \in {normalizeRelativePath(detailPagePath)}})

---------------------------------------------------------------------------
(* Text and JavaScript values                                              *)

\* A text is a sequence of chunks; '' is <<>>.
RECURSIVE Cat(_)
Cat(ts) == IF ts = <<>> THEN <<>> ELSE Head(ts) \o Cat(Tail(ts))

\* array.join(sep) of texts.
RECURSIVE Join(_, _)
Join(ts, sep) ==
  IF ts = <<>> THEN <<>>
  ELSE IF Len(ts) = 1 THEN ts[1]
  ELSE ts[1] \o sep \o Join(Tail(ts), sep)

\* The chunks \s matches; "\n\n" is a line break followed by a blank line.
White == {" ", "\n", "\n\n"}

RECURSIVE TrimLeft(_)
TrimLeft(t) == IF t # <<>> /\ Head(t) \in White THEN TrimLeft(Tail(t)) ELSE t

RECURSIVE TrimRight(_)
TrimRight(t) ==
  IF t # <<>> /\ t[Len(t)] \in White
  THEN TrimRight(SubSeq(t, 1, Len(t) - 1))
  ELSE t

\* String.prototype.trim on a text.
TrimText(t) == One({TrimRight(x) : x \in {TrimLeft(t)}})

\* A text value that is null or undefined.
NullText == <<"(null)">>

\* null and undefined; an array; an object is a record with kind "object".
Null == [kind |-> "null"]
Arr(items) == [kind |-> "array", items |-> items]

IsNull(v) == v.kind = "null"

\* NonEmptyArr without the length test.
MutIsArray(v) == v.kind = "array"

\* v && v.length > 0
NonEmptyArr(v) == v.kind = "array" /\ Len(v.items) > 0

---------------------------------------------------------------------------
(* generateDetailPageHtml                                                  *)

ListWrapperTags == {"<ul>", "</ul>", "<ol>", "</ol>", "<UL>", "</UL>"}
ListItemOpenTags == {"<li>", "<LI>", "<li class=\"x\">"}
ListItemEndTags == {"<li>", "</li>", "<LI>", "</LI>"}
\* [-*(bullet)]+, where "(bullet)" stands for the character U+2022.
BulletMarkers == {"-", "*", "(bullet)", "--"}
NumberMarkers == {"1.", "2)", "10."}

\* text.replace(/<\/?(ul|ol)[^>]*>/gi, '').trim()
StripListWrappers(t) ==
  One({TrimText(x) : x \in {SelectSeq(t, LAMBDA c : c \notin ListWrapperTags)}})

\* .replace(/^\s*<li[^>]*>\s*/i, '')
StripItemOpen(t) ==
  IF t # <<>> /\ Head(t) \in ListItemOpenTags THEN TrimLeft(Tail(t)) ELSE t

\* .replace(/\s*<\/?li>\s*$/i, '').trim()
StripItemEnd(t) ==
  IF t # <<>> /\ t[Len(t)] \in ListItemEndTags
  THEN TrimText(SubSeq(t, 1, Len(t) - 1))
  ELSE TrimText(t)

\* .replace(/^\s*(?:[-*(bullet)]+\s+|\d+[.)]\s+)/, '').trim()
StripBulletMarker(t) ==
  IF Len(t) >= 2 /\ t[1] \in BulletMarkers \cup NumberMarkers /\ t[2] \in White
  THEN TrimText(Tail(t))
  ELSE t

sanitizeListItem(value) ==
  IF value = NullText THEN <<>>
  ELSE One({StripBulletMarker(t3) : t3 \in
         {StripItemEnd(t2) : t2 \in
           {StripItemOpen(t1) : t1 \in
             {StripListWrappers(t0) : t0 \in {TrimText(value)}}}}})

\* text.split(/\n\s*\n+/): the pieces between blank lines.
RECURSIVE SplitParagraphs(_, _)
SplitParagraphs(t, cur) ==
  IF t = <<>> THEN <<cur>>
  ELSE IF Head(t) = "\n\n" THEN <<cur>> \o SplitParagraphs(Tail(t), <<>>)
  ELSE SplitParagraphs(Tail(t), Append(cur, Head(t)))

\* .split(...).map(p => p.trim()).filter(Boolean)
ParagraphParts(text) ==
  One({SelectSeq(trimmed, LAMBDA p : p # <<>>) : trimmed \in
        {[i \in DOMAIN pieces |-> TrimText(pieces[i])] :
           pieces \in {SplitParagraphs(text, <<>>)}}})

\* parts.map(p => `<p class="${className}">${p}</p>`).join(''); className is
\* always the default, 'projects__row-content-desc2'.
ParagraphsHtml(parts) ==
  Cat([i \in DOMAIN parts |->
         <<"<p class=\"projects__row-content-desc2\">">> \o parts[i] \o <<"</p>">>])

renderTextAsParagraphs(value) ==
  IF value = NullText THEN <<>>
  ELSE One({IF text = <<>> THEN <<>>
            ELSE One({ParagraphsHtml(parts) : parts \in {ParagraphParts(text)}}) :
            text \in {TrimText(value)}})

\* const meta = detail.meta || {}
MetaOf(detail) ==
  IF IsNull(detail.meta)
  THEN [role |-> <<>>, projectType |-> <<>>, company |-> <<>>, projectDate |-> <<>>]
  ELSE detail.meta

MetaLines(meta) ==
  (IF meta.role # <<>> \/ meta.projectType # <<>>
   THEN <<"<strong>", IF meta.role # <<>> THEN "Role" ELSE "Project Type",
          ":</strong> ">>
        \o (IF meta.role # <<>> THEN meta.role ELSE meta.projectType)
        \o <<"<br>">>
   ELSE <<>>)
  \o (IF meta.company # <<>>
      THEN <<"<strong>Company:</strong> ">> \o meta.company \o <<"<br>">>
      ELSE <<>>)
  \o (IF meta.projectDate # <<>>
      THEN <<"<strong>Project Date:</strong> ">> \o meta.projectDate
      ELSE <<>>)

MetaHtml(detail) == One({MetaLines(meta) : meta \in {MetaOf(detail)}})

\* A switch whose default case emits a paragraph.
MutDefaultParagraph(item) ==
  IF item.type = "bullet"
  THEN <<"<ul class=\"project-details__desc-list\">", "<li>">>
         \o item.content \o <<"</li>", "</ul>">>
  ELSE <<"<p class=\"projects__row-content-desc2\">">> \o item.content \o <<"</p>">>

\* One pass of the switch (item.type) of the overview loop.
OverviewItemHtml(item) ==
  CASE item.type = "paragraph" ->
         <<"<p class=\"projects__row-content-desc2\">">> \o item.content \o <<"</p>">>
    [] item.type = "heading" ->
         <<"<p class=\"projects__row-content-desc2\">", "<strong>">>
           \o item.content \o <<"</strong>", "</p>">>
    [] item.type = "bullet" ->
         <<"<ul class=\"project-details__desc-list\">", "<li>">>
           \o item.content \o <<"</li>", "</ul>">>
    [] item.type = "note" ->
         <<"<p class=\"projects__row-content-desc2\">", "<strong>NOTE:</strong> ">>
           \o item.content \o <<"</p>">>
    [] item.type = "image" ->
         <<"<div class=\"project-details__showcase-img-cont3\">", "<img src=\"">>
           \o item.src \o <<"\"/>", "</div>">>
           \o (IF item.caption # <<>>
               THEN <<"<p class=\"projects__row-content-desc\">">>
                      \o item.caption \o <<"</p>">>
               ELSE <<>>)
    [] OTHER -> <<>>

\* item.type of a null item is a TypeError.
OverviewThrows(detail) ==
  /\ NonEmptyArr(detail.overview)
  /\ \E i \in 1..Len(detail.overview.items) : IsNull(detail.overview.items[i])

OverviewHtml(detail) ==
  IF NonEmptyArr(detail.overview)
  THEN Cat([i \in DOMAIN detail.overview.items |->
              OverviewItemHtml(detail.overview.items[i])])
  ELSE <<>>

\* x ? String(x).trim() : ''
TrimmedOrEmpty(x) == IF x = NullText THEN <<>> ELSE TrimText(x)

\* The three trimmed fields of a block: (block && block.x) ? String(block.x).trim() : ''
BlockFields(block) ==
  IF IsNull(block)
  THEN [subtitle |-> <<>>, description |-> <<>>, imageSrc |-> <<>>]
  ELSE [subtitle |-> TrimmedOrEmpty(block.subtitle),
        description |-> TrimmedOrEmpty(block.description),
        imageSrc |-> IF IsNull(block.image) THEN <<>>
                     ELSE TrimmedOrEmpty(block.image.src)]

BlockFieldsHtml(f) ==
  IF f.subtitle = <<>> /\ f.description = <<>> /\ f.imageSrc = <<>> THEN <<>>
  ELSE <<"<div class=\"project-details__main-content-block\">">>
       \o (IF f.subtitle # <<>>
           THEN <<"<h4 class=\"project-details__content-subtitle\">">>
                  \o f.subtitle \o <<"</h4>">>
           ELSE <<>>)
       \o (IF f.imageSrc # <<>>
           THEN <<"<div class=\"project-details__showcase-img-cont3\">",
                  "<img src=\"">> \o f.imageSrc \o <<"\"/>", "</div>">>
           ELSE <<>>)
       \o renderTextAsParagraphs(f.description)
       \o <<"</div>">>

\* One element of blocks.map(...); '' is filtered out by the join.
BlockHtml(block) == One({BlockFieldsHtml(f) : f \in {BlockFields(block)}})

\* HasMainContent without the trim of the title.
MutTitleNotTrimmed(detail) ==
  /\ ~IsNull(detail.mainContent)
  /\ detail.mainContent.title # NullText
  /\ detail.mainContent.title # <<>>

\* mainContent && typeof mainContent.title === 'string' && mainContent.title.trim()
HasMainContent(detail) ==
  /\ ~IsNull(detail.mainContent)
  /\ detail.mainContent.title # NullText
  /\ TrimText(detail.mainContent.title) # <<>>

\* Array.isArray(mainContent.blocks) ? mainContent.blocks : []
BlocksOf(mainContent) ==
  IF mainContent.blocks.kind = "array" THEN mainContent.blocks.items ELSE <<>>

MainContentHtml(detail) ==
  IF HasMainContent(detail)
  THEN <<"<div class=\"project-details__tools-used project-details__main-content\">",
         "<h3 class=\"project-details__content-title\">">>
         \o TrimText(detail.mainContent.title) \o <<"</h3>">>
         \o renderTextAsParagraphs(detail.mainContent.description)
         \o One({Cat([i \in DOMAIN blocks |-> BlockHtml(blocks[i])]) :
                 blocks \in {BlocksOf(detail.mainContent)}})
         \o renderTextAsParagraphs(detail.mainContent.conclusion)
         \o <<"</div>">>
  ELSE <<>>

\* UsesAdditionalImages without the !mainContentHtml test.
MutIgnoresMainContent(detail) == NonEmptyArr(detail.additionalImages)

\* !mainContentHtml && detail.additionalImages && detail.additionalImages.length > 0
UsesAdditionalImages(detail) ==
  ~HasMainContent(detail) /\ NonEmptyArr(detail.additionalImages)

\* img.src of a null image is a TypeError (img.caption is guarded).
AdditionalImagesThrow(detail) ==
  /\ UsesAdditionalImages(detail)
  /\ \E i \in 1..Len(detail.additionalImages.items) :
       IsNull(detail.additionalImages.items[i])

AdditionalImageHtml(img) ==
  One({IF caption # <<>>
       THEN <<"<p class=\"project-details__image-title\">">> \o caption \o <<"</p>">>
       ELSE <<>> : caption \in {TrimText(img.caption)}})
  \o <<"<div class=\"project-details__showcase-img-cont\">", "<img src=\"">>
  \o img.src \o <<"\"/>", "</div>">>

AdditionalImagesHtml(detail) ==
  IF UsesAdditionalImages(detail)
  THEN <<"<div class=\"project-details__tools-used\">",
         "<h3 class=\"project-details__content-title\">Images</h3>">>
         \o Cat([i \in DOMAIN detail.additionalImages.items |->
                   AdditionalImageHtml(detail.additionalImages.items[i])])
         \o <<"</div>">>
  ELSE <<>>

\* list.map(sanitizeListItem).filter(Boolean)
SanitizedItems(items) ==
  One({SelectSeq(mapped, LAMBDA t : t # <<>>) :
       mapped \in {[i \in DOMAIN items |-> sanitizeListItem(items[i])]}})

\* keyContributions and futureDevelopment share this shape.
ListSectionHtml(list, heading) ==
  IF NonEmptyArr(list)
  THEN <<"<div class=\"project-details__tools-used\">", heading,
         "<ul class=\"project-details__desc-list\">">>
         \o One({Join([i \in DOMAIN kept |-> <<"<li>">> \o kept[i] \o <<"</li>">>],
                      <<"\n">>) :
                 kept \in {SanitizedItems(list.items)}})
         \o <<"</ul>", "</div>">>
  ELSE <<>>

KeyContributionsHtml(detail) ==
  ListSectionHtml(detail.keyContributions,
                  "<h3 class=\"project-details__content-title\">Key Contributions</h3>")

FutureDevHtml(detail) ==
  ListSectionHtml(detail.futureDevelopment,
                  "<h3 class=\"project-details__content-title\">Future Development</h3>")

SkillsHtml(detail) ==
  IF NonEmptyArr(detail.skills)
  THEN <<"<div class=\"project-details__tools-used\">",
         "<h3 class=\"project-details__content-title\">Skills and Tools Used</h3>",
         "<div class=\"skills\">">>
         \o Join([i \in DOMAIN detail.skills.items |->
                    <<"<div class=\"skills__skill\">">> \o detail.skills.items[i]
                      \o <<"</div>">>],
                  <<"\n">>)
         \o <<"</div>", "</div>">>
  ELSE <<>>

\* link.url of a null link is a TypeError.
LinksThrow(detail) ==
  /\ NonEmptyArr(detail.links)
  /\ \E i \in 1..Len(detail.links.items) : IsNull(detail.links.items[i])

LinksHtml(detail) ==
  IF NonEmptyArr(detail.links)
  THEN <<"<div class=\"project-details__links\">",
         "<h3 class=\"project-details__content-title\">Project Links</h3>">>
         \o Join([i \in DOMAIN detail.links.items |->
                    <<"<a href=\"">> \o detail.links.items[i].url
                      \o <<"\" target=\"_blank\">">> \o detail.links.items[i].label
                      \o <<"</a>">>],
                  <<"\n">>)
         \o <<"</div>">>
  ELSE <<>>

\* The statements of generateDetailPageHtml that raise a TypeError.
RenderThrows(detail) ==
  OverviewThrows(detail) \/ AdditionalImagesThrow(detail) \/ LinksThrow(detail)

\* The template literal returned.
DetailDocument(detail, projectTitle) ==
  <<"<!DOCTYPE html>", "<title>More Details on ">> \o projectTitle
  \o <<"</title>", "<header class=\"header\">", "<section class=\"project-details\">",
       "<img src=\"">>
  \o (IF detail.heroImage # <<>> THEN detail.heroImage
      ELSE <<"./assets/jpeg/project-placeholder.jpg">>)
  \o <<"\"/>", "<h3 class=\"project-details__content-title--big\">">>
  \o projectTitle
  \o <<"</h3>", "<p class=\"project-details__desc-para\">">>
  \o MetaHtml(detail)
  \o <<"</p>", "<div class=\"project-details__tools-used\">",
       "<h3 class=\"project-details__content-title\">Project Overview</h3>">>
  \o OverviewHtml(detail)
  \o <<"</div>">>
  \o MainContentHtml(detail)
  \o AdditionalImagesHtml(detail)
  \o KeyContributionsHtml(detail)
  \o FutureDevHtml(detail)
  \o SkillsHtml(detail)
  \o LinksHtml(detail)
  \o <<"</section>", "<script src=\"./index.js\">", "</html>">>

\* The call: [threw, html].  detailPagePath is not used by the function.
generateDetailPageHtml(detail, projectTitle, detailPagePath) ==
  IF RenderThrows(detail) THEN [threw |-> TRUE, html |-> <<>>]
  ELSE [threw |-> FALSE, html |-> DetailDocument(detail, projectTitle)]

---------------------------------------------------------------------------
(* generateIndexHtml: the listing section patcher                          *)

projectsStartMarker == "<section id=\"projects\" class=\"projects sec-pad\">"
nextSectionStartMarker == "<script src=\"./index.js\">"
SectionClose == "</section>"
Indent == "    "

\* Offsets are 1-based; NotFound is the -1 of String.prototype.indexOf.
NotFound == 0

SetMin(S) == CHOOSE n \in S : \A m \in S : n <= m
SetMax(S) == IF S = {} THEN 0 ELSE CHOOSE n \in S : \A m \in S : m <= n

\* The offsets from lo on at which chunk stands.
Hits(text, chunk, lo) == {i \in lo..Len(text) : text[i] = chunk}

FirstOrNotFound(hits) == IF hits = {} THEN NotFound ELSE SetMin(hits)

\* text.indexOf(chunk, from): a from below the first offset starts at it.
IndexOf(text, chunk, from) ==
  IF from < 1
  THEN One({FirstOrNotFound(hits) : hits \in {Hits(text, chunk, 1)}})
  ELSE One({FirstOrNotFound(hits) : hits \in {Hits(text, chunk, from)}})

\* text.substring(from): a from below the first offset is the first offset.
Substring(text, from) == SubSeq(text, IF from < 1 THEN 1 ELSE from, Len(text))

\* Only the start marker is tested.
MutOnlyStartTested(projectsSectionStart, nextSectionStart) ==
  projectsSectionStart = NotFound

\* projectsSectionStart === -1 || nextSectionStart === -1
MarkersMissing(projectsSectionStart, nextSectionStart) ==
  projectsSectionStart = NotFound \/ nextSectionStart = NotFound

\* The offsets of '</section>' in [projectsSectionStart, nextSectionStart).
ClosesBetween(text, projectsSectionStart, nextSectionStart) ==
  {i \in projectsSectionStart..(nextSectionStart - 1) : text[i] = SectionClose}

\* A forward scan: the offset after the first '</section>' in the range.
MutForwardScan(text, projectsSectionStart, nextSectionStart) ==
  One({IF hits = {} THEN nextSectionStart
       ELSE SetMin(hits) + Len(<<SectionClose>>) :
       hits \in {ClosesBetween(text, projectsSectionStart, nextSectionStart)}})

\* The backward scan: the offset after the last '</section>' in
\* [projectsSectionStart, nextSectionStart), else nextSectionStart.
ProjectsSectionEnd(text, projectsSectionStart, nextSectionStart) ==
  One({IF hits = {} THEN nextSectionStart
       ELSE SetMax(hits) + Len(<<SectionClose>>) :
       hits \in {ClosesBetween(text, projectsSectionStart, nextSectionStart)}})

\* The chunks that contain '<p'.
ParagraphChunks ==
  {"<p>", "<p class=\"projects__row-content-desc\">",
   "<p class='projects__row-content-desc'>", "<p class=\"lead\">", "<pre>"}

\* The chunks that contain class="projects__row-content-desc (either quote).
StyledChunks ==
  {"<p class=\"projects__row-content-desc\">",
   "<p class='projects__row-content-desc'>",
   "<span class=\"projects__row-content-desc2\">"}

Includes(text, chunks) == \E i \in 1..Len(text) : text[i] \in chunks

DescContent(description) ==
  IF Includes(description, ParagraphChunks)
  THEN IF Includes(description, StyledChunks)
       THEN description
       ELSE <<"<div class=\"projects__row-content-desc\">">> \o description
              \o <<"</div>">>
  ELSE <<"<p class=\"projects__row-content-desc\">">> \o description \o <<"</p>">>

\* One element of projects.map(...).
ProjectRowHtml(project) ==
  <<IF project.centerImage
    THEN "<div class=\"projects__row projects__row--center-img\">"
    ELSE "<div class=\"projects__row\">",
    "<div class=\"projects__row-img-cont\">", "<img src=\"">>
  \o project.image \o <<"\" alt=\"">> \o project.title
  \o <<"\" class=\"projects__row-img\" loading=\"lazy\"">>
  \o (IF project.imageStyle # <<>>
      THEN <<" style=\"">> \o project.imageStyle \o <<"\"">>
      ELSE <<>>)
  \o <<"/>", "</div>", "<div class=\"projects__row-content\">",
       "<h3 class=\"projects__row-content-title\">">>
  \o project.title \o <<"</h3>">>
  \o DescContent(project.description)
  \o <<"<a href=\"", ToString(project.detailPage), "\">More Details</a>",
       "</div>", "</div>">>

\* project.description.includes of a missing description is a TypeError.
RowsThrow(projects) ==
  \E i \in 1..Len(projects) : projects[i].description = NullText

\* NewProjectsSection with the rows in reverse order.
MutRowsReversed(projects) ==
  <<Indent, projectsStartMarker, "<div class=\"main-container\">",
    "<h2 class=\"heading heading-sec heading-sec__mb-bg\">Projects</h2>", "\n">>
  \o Join([i \in DOMAIN projects |->
             ProjectRowHtml(projects[Len(projects) + 1 - i])], <<"\n">>)
  \o <<"\n", "</div>", "\n", Indent, SectionClose>>

NewProjectsSection(projects) ==
  <<Indent, projectsStartMarker, "<div class=\"main-container\">",
    "<h2 class=\"heading heading-sec heading-sec__mb-bg\">Projects</h2>", "\n">>
  \o Join([i \in DOMAIN projects |-> ProjectRowHtml(projects[i])], <<"\n">>)
  \o <<"\n", "</div>", "\n", Indent, SectionClose>>

\* The statements after the two indexOf calls: [wrote, threw, text].
PatchBetween(indexContent, projects, projectsSectionStart, nextSectionStart) ==
  IF MarkersMissing(projectsSectionStart, nextSectionStart)
  THEN [wrote |-> FALSE, threw |-> FALSE, text |-> indexContent]
  ELSE IF RowsThrow(projects)
  THEN [wrote |-> FALSE, threw |-> TRUE, text |-> indexContent]
  ELSE One({[wrote |-> TRUE, threw |-> FALSE,
             text |-> SubSeq(indexContent, 1, projectsSectionStart - 1)
                      \o NewProjectsSection(projects)
                      \o Substring(indexContent, projectsSectionEnd)] :
            projectsSectionEnd \in
              {ProjectsSectionEnd(indexContent, projectsSectionStart,
                                  nextSectionStart)}})

\* The text of index.html after generateIndexHtml, given the text read:
\* [wrote, threw, text].
PatchIndex(indexContent, projects) ==
  One(UNION
    {{PatchBetween(indexContent, projects, projectsSectionStart, nextSectionStart) :
        nextSectionStart \in
          {IndexOf(indexContent, nextSectionStartMarker, projectsSectionStart)}} :
      projectsSectionStart \in {IndexOf(indexContent, projectsStartMarker, 1)}})

---------------------------------------------------------------------------
(* The record store                                                        *)

\* The records of a file whose text JSON.parse rejects, such as the file
\* fs.writeFile has opened, and so truncated, and not yet written.
Unparsable == <<[kind |-> "unparsable"]>>

\* try { readFile; JSON.parse } succeeds.
Readable(file, records) == file.present /\ records # Unparsable

\* loadProjects: the file after the call; the data returned is its projects.
\* The catch runs on every error of readFile and of JSON.parse, and writes
\* the default { projects: [] }.
loadProjects(pf) ==
  IF Readable(pf, pf.projects) THEN pf ELSE [present |-> TRUE, projects |-> <<>>]

\* A save that writes the first project only.
MutSavesFirstOnly(projects) ==
  [present |-> TRUE,
   projects |-> IF projects = <<>> THEN <<>> ELSE <<Head(projects)>>]

\* fs.writeFile(PROJECTS_FILE, JSON.stringify(data, null, 2))
saveProjects(projects) == [present |-> TRUE, projects |-> projects]

loadProjectDetails(df) ==
  IF Readable(df, df.details) THEN df ELSE [present |-> TRUE, details |-> <<>>]

saveProjectDetails(details) == [present |-> TRUE, details |-> details]

\* The segments of a path on which /project-(\d+)\.html/ matches.
NumberHits(path) == {i \in 1..Len(path) : MatchesProjectNumber(path[i])}

\* str.match(/project-(\d+)\.html/): the number of the leftmost match, as a set.
MatchNumber(path) ==
  One({IF hits = {} THEN {} ELSE {path[SetMin(hits)].num[1]} :
       hits \in {NumberHits(path)}})

\* The locations of the files directly in the site root.
RootEntries(fs) ==
  {l \in DOMAIN fs :
     Len(l) = Len(ROOT_DIR) + 1 /\ SubSeq(l, 1, Len(ROOT_DIR)) = ROOT_DIR}

\* fs.readdir(ROOT_DIR): their names.
ReadRootDir(fs) == {loc[Len(loc)] : loc \in RootEntries(fs)}

\* The numbers found by the first loop of getNextProjectNumber.
NumbersOfProjects(projects) ==
  UNION {IF Truthy(projects[i].detailPage)
         THEN MatchNumber(projects[i].detailPage) ELSE {} :
         i \in 1..Len(projects)}

\* The numbers found by the second loop.
NumbersOfFiles(fs) == UNION {MatchNumber(<<name>>) : name \in ReadRootDir(fs)}

getNextProjectNumber(pf, fs) ==
  One({SetMax(NumbersOfProjects(data.projects) \cup NumbersOfFiles(fs)) + 1 :
       data \in {loadProjects(pf)}})

\* The indexes of the records of s with field id equal to v.
WithId(s, v) == {i \in 1..Len(s) : s[i].id = v}
WithProjectId(s, v) == {i \in 1..Len(s) : s[i].projectId = v}

\* projects.findIndex(p => p.id === id): the first index, or 0.
FindProject(projects, id) ==
  One({FirstOrNotFound(hits) : hits \in {WithId(projects, id)}})

\* details.findIndex(d => d.projectId === projectId): the first index, or 0.
FindDetail(details, projectId) ==
  One({FirstOrNotFound(hits) : hits \in {WithProjectId(details, projectId)}})

PlaceholderImage == <<"./assets/jpeg/project-placeholder.jpg">>

\* v || fallback for a text v
TextOr(v, fallback) == IF v # <<>> /\ v # NullText THEN v ELSE fallback

\* The default detail record of POST /api/projects and ensureDetailPagesExist;
\* they differ in projectDate only.
DefaultDetail(project, projectDate) ==
  [kind |-> "object",
   projectId |-> project.id,
   heroImage |-> TextOr(project.image, PlaceholderImage),
   meta |-> [kind |-> "object", role |-> <<>>, company |-> <<>>,
             projectType |-> <<>>, projectDate |-> projectDate],
   overview |-> Arr(<<[kind |-> "object", type |-> "paragraph",
                       content |-> TextOr(project.description,
                                          <<"Project overview coming soon...">>),
                       src |-> <<>>, caption |-> <<>>]>>),
   mainContent |-> Null,
   additionalImages |-> Arr(<<>>),
   keyContributions |-> Arr(<<>>),
   futureDevelopment |-> Arr(<<>>),
   skills |-> Arr(<<>>),
   links |-> Arr(<<>>)]

---------------------------------------------------------------------------
(* Writing detail pages                                                    *)

\* path.join(ROOT_DIR, detailPagePath.replace(/^\.\//, ''))
DetailFilePath(detailPagePath) ==
  One({PathJoin(ROOT_DIR, relative) : relative \in {StripDotSlash(detailPagePath)}})

\* The last three statements of saveDetailPageHtml.  replace on a missing
\* detailPagePath is a TypeError and writing to the root directory itself
\* fails; otherwise the file is written whether or not it is there already.
SaveRendered(detailsData, fs, page, detailPagePath) ==
  IF page.threw \/ ~Truthy(detailPagePath)
  THEN [df |-> detailsData, fs |-> fs, ok |-> FALSE, threw |-> TRUE, wrote |-> {}]
  ELSE One({[df |-> detailsData, fs |-> WriteFile(fs, filePath, page.html),
             ok |-> TRUE, threw |-> FALSE, wrote |-> {filePath}] :
            filePath \in {DetailFilePath(detailPagePath)}})

\* saveDetailPageHtml after the find; i is 0 when there is no detail.
SaveFound(detailsData, fs, i, projectTitle, detailPagePath) ==
  IF i = 0
  THEN [df |-> detailsData, fs |-> fs, ok |-> FALSE, threw |-> FALSE, wrote |-> {}]
  ELSE One({SaveRendered(detailsData, fs, page, detailPagePath) :
            page \in {generateDetailPageHtml(detailsData.details[i], projectTitle,
                                             detailPagePath)}})

\* saveDetailPageHtml: [df, fs, ok, threw, wrote].
saveDetailPageHtml(df, fs, projectId, projectTitle, detailPagePath) ==
  One(UNION
    {{SaveFound(detailsData, fs, i, projectTitle, detailPagePath) :
        i \in {FindDetail(detailsData.details, projectId)}} :
      detailsData \in {loadProjectDetails(df)}})

\* A loop that does not test whether the page exists.
MutAlwaysMissing(fs, filePath) == FALSE

\* fs.access(filePath) succeeded.
PageExists(fs, filePath) == Exists(fs, filePath)

\* The end of one pass of the loop of ensureDetailPagesExist: the detail is
\* pushed if it was synthesized (i = 0), the page rendered and written.
EnsureWrite(project, acc, filePath, i, detail) ==
  One({IF page.threw THEN [acc EXCEPT !.threw = TRUE]
       ELSE [details |-> IF i = 0 THEN Append(acc.details, detail) ELSE acc.details,
             fs |-> WriteFile(acc.fs, filePath, page.html),
             changed |-> acc.changed \/ i = 0,
             wrote |-> acc.wrote \cup {filePath},
             threw |-> FALSE] :
       page \in {generateDetailPageHtml(detail, project.title, project.detailPage)}})

\* One pass for a project whose page is missing.
EnsureMissing(project, acc, filePath, i) ==
  One({EnsureWrite(project, acc, filePath, i, detail) :
       detail \in {IF i = 0 THEN DefaultDetail(project, <<>>) ELSE acc.details[i]}})

\* One pass of the loop: acc is [details, fs, changed, wrote, threw].
EnsureProject(project, acc) ==
  IF ~Truthy(project.detailPage) THEN acc
  ELSE One({IF PageExists(acc.fs, filePath) THEN acc
            ELSE One({EnsureMissing(project, acc, filePath, i) :
                      i \in {FindDetail(acc.details, project.id)}}) :
            filePath \in {DetailFilePath(project.detailPage)}})

\* The for loop of ensureDetailPagesExist from project k on; an exception
\* ends it and keeps the files written before.
RECURSIVE EnsureLoop(_, _, _)
EnsureLoop(projects, k, acc) ==
  IF k > Len(projects) \/ acc.threw THEN acc
  ELSE One({EnsureLoop(projects, k + 1, next) :
            next \in {EnsureProject(projects[k], acc)}})

\* An end of ensureDetailPagesExist that saves the details store whether or
\* not a detail was synthesized.
MutSavesUnchanged(df, projectsData, detailsData, r) ==
  [pf |-> projectsData,
   df |-> saveProjectDetails(r.details),
   fs |-> r.fs,
   threw |-> r.threw,
   wrote |-> r.wrote,
   savedDetails |-> TRUE]

\* ensureDetailPagesExist after its loop: [pf, df, fs, threw, wrote,
\* savedDetails].  savedDetails: the details store was written, by the load
\* that creates it or by the final save, which an exception skips.
EnsureResult(df, projectsData, detailsData, r) ==
  [pf |-> projectsData,
   df |-> IF r.changed /\ ~r.threw THEN saveProjectDetails(r.details)
          ELSE detailsData,
   fs |-> r.fs,
   threw |-> r.threw,
   wrote |-> r.wrote,
   savedDetails |-> ~df.present \/ (r.changed /\ ~r.threw)]

EnsureFrom(df, fs, projectsData, detailsData) ==
  One(UNION
    {{EnsureResult(df, projectsData, detailsData, r) :
        r \in {EnsureLoop(projectsData.projects, 1, acc)}} :
      acc \in {[details |-> detailsData.details, fs |-> fs, changed |-> FALSE,
                wrote |-> {}, threw |-> FALSE]}})

ensureDetailPagesExist(pf, df, fs) ==
  One({EnsureFrom(df, fs, projectsData, detailsData) :
       projectsData \in {loadProjects(pf)},
       detailsData \in {loadProjectDetails(df)}})

\* generateIndexHtml with the projects loaded: reading a missing index.html
\* throws.
GenerateIndexFrom(data, ix) ==
  IF ~ix.present
  THEN [pf |-> data, ix |-> ix, threw |-> TRUE, wrote |-> FALSE]
  ELSE One({[pf |-> data,
             ix |-> IF r.wrote THEN [present |-> TRUE, text |-> r.text] ELSE ix,
             threw |-> r.threw, wrote |-> r.wrote] :
            r \in {PatchIndex(ix.text, data.projects)}})

\* generateIndexHtml on the store: [pf, ix, threw, wrote].
generateIndexHtml(pf, ix) ==
  One({GenerateIndexFrom(data, ix) : data \in {loadProjects(pf)}})

---------------------------------------------------------------------------
(* Bounds and request inputs                                               *)

MaxProjects == 1
MaxClock == 1
MaxIndentRun == 1

Para(content) ==
  [kind |-> "object", type |-> "paragraph", content |-> content, src |-> <<>>,
   caption |-> <<>>]

\* A request body for PUT /api/project-details/:projectId.
DetailBody(overview, mainContent, additionalImages, links) ==
  [kind |-> "object",
   projectId |-> <<>>,
   heroImage |-> <<>>,
   meta |-> Null,
   overview |-> overview,
   mainContent |-> mainContent,
   additionalImages |-> additionalImages,
   keyContributions |-> Arr(<< <<"-", " ", "Wrote the model">> >>),
   futureDevelopment |-> Null,
   skills |-> Arr(<< <<"TLA+">> >>),
   links |-> links]

\* A main content with a description and no title.
UntitledMainContent ==
  [kind |-> "object", title |-> NullText, description |-> <<"Intro">>,
   blocks |-> Arr(<<>>), conclusion |-> NullText]

\* A body as a client other than the admin form sends it: the main content
\* has no title.
EditedBody ==
  DetailBody(Arr(<<Para(<<"Edited">>)>>), UntitledMainContent, Arr(<<>>), Arr(<<>>))

\* A body whose overview holds a null element.
BrokenBody == DetailBody(Arr(<<Para(<<"Edited">>), Null>>), Null, Arr(<<>>), Arr(<<>>))

DetailBodies == {EditedBody, BrokenBody}

AutoDetailPage(n) == <<Seg("."), NumSeg("project-", n, ".html")>>
CustomPage == <<Seg("."), Seg("custom.html")>>
OutsidePage == <<Seg(".."), Seg("outside.html")>>

\* A request body for POST /api/projects.
CreateBody(detailPage) ==
  [id |-> <<>>, title |-> <<"Alpha">>, description |-> <<"Hello">>,
   image |-> <<"./assets/jpeg/a.jpg">>, imageStyle |-> <<>>,
   centerImage |-> FALSE, detailPage |-> detailPage]

CreateBodies == {CreateBody(NullPath), CreateBody(CustomPage), CreateBody(OutsidePage)}

\* A request body for PUT /api/projects/:id; <<>> is a field left out.
UpdateBody(title, detailPage) ==
  [id |-> <<>>, title |-> title, description |-> <<>>, detailPage |-> detailPage]

\* A body that carries an id and nothing else.
UpdateBodyWithId == [UpdateBody(<<>>, <<>>) EXCEPT !.id = <<1>>]

UpdateBodies ==
  {UpdateBodyWithId,
   UpdateBody(<< <<"Beta">> >>, <<>>),
   UpdateBody(<<>>, <<OutsidePage>>),
   UpdateBody(<<>>, <<AutoDetailPage(7)>>)}

\* The ids a request names: the stored project's and those Date.now() gave.
Ids == 0..MaxClock

ReorderInputs == {<<>>} \cup {<<a>> : a \in Ids} \cup {<<a, b>> : a, b \in Ids}

\* new Date().getFullYear().toString()
CurrentYear == <<"2026">>

TemplateIndex ==
  <<"<html>", "<section id=\"home\">", SectionClose, "\n", projectsStartMarker,
    "old rows", SectionClose, "\n", nextSectionStartMarker, "</html>">>

HandWritten == <<"hand-written page">>

\* The Indent chunks directly before offset i.
RECURSIVE IndentsBefore(_, _)
IndentsBefore(text, i) ==
  IF i >= 1 /\ text[i] = Indent THEN 1 + IndentsBefore(text, i - 1) ELSE 0

\* The Indent chunks directly before the start marker.
IndentRun(text) ==
  One({IndentsBefore(text, start - 1) : start \in {IndexOf(text, projectsStartMarker, 1)}})

---------------------------------------------------------------------------
(* The request handlers, one request at a time.  An exception is answered  *)
(* with status 500 and keeps what was written before it.                   *)

\* { id: Date.now(), ...req.body, detailPage: detailPage }
NewProject(body, now, detailPage) ==
  [id |-> IF body.id # <<>> THEN body.id[1] ELSE now,
   title |-> body.title,
   description |-> body.description,
   image |-> body.image,
   imageStyle |-> body.imageStyle,
   centerImage |-> body.centerImage,
   detailPage |-> detailPage]

\* { ...data.projects[index], ...req.body }
MergeProject(project, body) ==
  [id |-> IF body.id # <<>> THEN body.id[1] ELSE project.id,
   title |-> IF body.title # <<>> THEN body.title[1] ELSE project.title,
   description |-> IF body.description # <<>> THEN body.description[1]
                   ELSE project.description,
   image |-> project.image,
   imageStyle |-> project.imageStyle,
   centerImage |-> project.centerImage,
   detailPage |-> IF body.detailPage # <<>> THEN body.detailPage[1]
                  ELSE project.detailPage]

\* { projectId: projectId, ...req.body }
NewDetail(projectId, body) ==
  [body EXCEPT !.projectId = IF body.projectId # <<>> THEN body.projectId[1]
                             ELSE projectId]

\* The ids of projectIds that name a project, in order.
KnownIds(projects, projectIds) ==
  SelectSeq(projectIds, LAMBDA id : WithId(projects, id) # {})

\* projectIds.forEach(id => { find; if (project) reordered.push(project) })
Reordered(projects, projectIds) ==
  One({[i \in 1..Len(kept) |-> projects[SetMin(WithId(projects, kept[i]))]] :
       kept \in {KnownIds(projects, projectIds)}})

\* Some file that was there before the request has other content after it.
Overwrote(fs, fs2) ==
  \E loc \in DOMAIN fs : loc \in DOMAIN fs2 /\ fs2[loc] # fs[loc]

\* The files after the request and the record of what it did: the status
\* answered, the locations written as detail pages, whether an existing file
\* changed content and whether the details store was written.
Respond(op, pf, df, fs, ix, status, wrote, savedDetails) ==
  /\ projectsFile' = pf
  /\ detailsFile' = df
  /\ files' = fs
  /\ indexHtml' = ix
  /\ last' = [op |-> op, status |-> status, wrote |-> wrote,
              overwrote |-> Overwrote(files, fs), savedDetails |-> savedDetails]
  /\ UNCHANGED requests

\* await generateIndexHtml() as the last statement before the answer.
RegenerateAndRespond(op, pf, df, fs, wrote, savedDetails) ==
  \E gi \in {generateIndexHtml(pf, indexHtml)} :
    Respond(op, pf, df, fs, gi.ix, IF gi.threw THEN 500 ELSE 200, wrote,
            savedDetails)

\* Each regeneration lengthens the run of Indent chunks; the run is bounded.
CanRegenerate == IndentRun(indexHtml.text) < MaxIndentRun

\* PushDetail without the push.
MutKeepsDetails(details, newDetail) == details

\* detailsData.details.push(newDetail)
PushDetail(details, newDetail) == Append(details, newDetail)

\* The handler of POST /api/projects for one body, Date.now() being now.
Create(body, now) ==
  /\ clock' = now
  /\ \E data \in {loadProjects(projectsFile)} :
     \E projectNumber \in {getNextProjectNumber(projectsFile, files)} :
     \E detailPage \in {IF Truthy(body.detailPage) THEN body.detailPage
                        ELSE AutoDetailPage(projectNumber)} :
     \E newProject \in {NewProject(body, now, detailPage)} :
     \E pf2 \in {saveProjects(<<newProject>> \o data.projects)} :
     \E detailsData \in {loadProjectDetails(detailsFile)} :
     \E newDetail \in {DefaultDetail(newProject, CurrentYear)} :
     \E df2 \in {saveProjectDetails(PushDetail(detailsData.details, newDetail))} :
     \E sd \in {saveDetailPageHtml(df2, files, newProject.id,
                                   newProject.title, detailPage)} :
       IF sd.threw
       THEN Respond("create-project", pf2, df2, files, indexHtml, 500, {}, TRUE)
       ELSE RegenerateAndRespond("create-project", pf2, df2, sd.fs, sd.wrote,
                                 TRUE)

\* POST /api/projects
CreateProject ==
  /\ CanRegenerate
  /\ Len(projectsFile.projects) < MaxProjects
  /\ \E body \in CreateBodies, now \in {clock, clock + 1} :
       /\ now <= MaxClock
       /\ Create(body, now)

\* PUT /api/projects/:id
UpdateProject ==
  /\ CanRegenerate
  /\ UNCHANGED clock
  /\ \E id \in Ids, body \in UpdateBodies :
     \E data \in {loadProjects(projectsFile)} :
     \E index \in {FindProject(data.projects, id)} :
       IF index = 0
       THEN Respond("update-project", data, detailsFile, files, indexHtml, 404, {},
                    FALSE)
       ELSE \E merged \in {MergeProject(data.projects[index], body)} :
            \E pf2 \in {saveProjects([data.projects EXCEPT ![index] = merged])} :
              RegenerateAndRespond("update-project", pf2, detailsFile, files, {},
                                   FALSE)

\* DELETE /api/projects/:id
RemoveProject ==
  /\ CanRegenerate
  /\ UNCHANGED clock
  /\ \E projectId \in Ids :
     \E data \in {loadProjects(projectsFile)} :
     \E index \in {FindProject(data.projects, projectId)} :
       IF index = 0
       THEN Respond("delete-project", data, detailsFile, files, indexHtml, 404, {},
                    FALSE)
       ELSE \E detailDeleteResult \in
                 {deleteGeneratedProjectDetailHtmlFile(
                    files, data.projects[index].detailPage)} :
            \E pf2 \in {saveProjects(SelectSeq(data.projects,
                                               LAMBDA p : p.id # projectId))} :
              RegenerateAndRespond("delete-project", pf2, detailsFile,
                                   detailDeleteResult.files, {}, FALSE)

\* POST /api/projects/reorder
Reorder ==
  /\ CanRegenerate
  /\ UNCHANGED clock
  /\ \E projectIds \in ReorderInputs :
     \E data \in {loadProjects(projectsFile)} :
     \E reordered \in {Reordered(data.projects, projectIds)} :
     \E pf2 \in {saveProjects(reordered)} :
       RegenerateAndRespond("reorder", pf2, detailsFile, files, {}, FALSE)

\* POST /api/generate
GenerateAll ==
  /\ CanRegenerate
  /\ UNCHANGED clock
  /\ \E e \in {ensureDetailPagesExist(projectsFile, detailsFile, files)} :
       IF e.threw
       THEN Respond("generate", e.pf, e.df, e.fs, indexHtml, 500, e.wrote,
                    e.savedDetails)
       ELSE RegenerateAndRespond("generate", e.pf, e.df, e.fs, e.wrote,
                                 e.savedDetails)

\* PUT /api/project-details/:projectId
SaveDetail ==
  /\ UNCHANGED clock
  /\ \E projectId \in Ids, body \in DetailBodies :
     \E detailsData \in {loadProjectDetails(detailsFile)} :
     \E projectsData \in {loadProjects(projectsFile)} :
     \E p \in {FindProject(projectsData.projects, projectId)} :
       IF p = 0
       THEN Respond("save-detail", projectsData, detailsData, files, indexHtml,
                    404, {}, ~detailsFile.present)
       ELSE \E project \in {projectsData.projects[p]} :
            \E existingIndex \in {FindDetail(detailsData.details, projectId)} :
            \E newDetail \in {NewDetail(projectId, body)} :
            \E df2 \in {saveProjectDetails(
                          IF existingIndex > 0
                          THEN [detailsData.details EXCEPT ![existingIndex] = newDetail]
                          ELSE Append(detailsData.details, newDetail))} :
            \E sd \in {saveDetailPageHtml(df2, files, projectId, project.title,
                                          project.detailPage)} :
              Respond("save-detail", projectsData, df2, sd.fs, indexHtml,
                      IF sd.threw THEN 500 ELSE 200, sd.wrote, TRUE)

\* DELETE /api/project-details/:projectId
RemoveDetail ==
  /\ UNCHANGED clock
  /\ \E projectId \in Ids :
     \E detailsData \in {loadProjectDetails(detailsFile)} :
     \E df2 \in {saveProjectDetails(SelectSeq(detailsData.details,
                                              LAMBDA d : d.projectId # projectId))} :
       Respond("delete-detail", projectsFile, df2, files, indexHtml, 200, {}, TRUE)

\* POST /api/project-details/:projectId/generate
GenerateDetail ==
  /\ UNCHANGED clock
  /\ \E projectId \in Ids :
     \E detailsData \in {loadProjectDetails(detailsFile)} :
     \E projectsData \in {loadProjects(projectsFile)} :
     \E p \in {FindProject(projectsData.projects, projectId)} :
     \E d \in {FindDetail(detailsData.details, projectId)} :
       IF p = 0 \/ d = 0
       THEN Respond("generate-detail", projectsData, detailsData, files, indexHtml,
                    404, {}, ~detailsFile.present)
       ELSE \E project \in {projectsData.projects[p]} :
            \E sd \in {saveDetailPageHtml(detailsData, files, projectId,
                                          project.title, project.detailPage)} :
              Respond("generate-detail", projectsData, detailsData, sd.fs,
                      indexHtml, IF sd.threw \/ ~sd.ok THEN 500 ELSE 200, sd.wrote,
                      ~detailsFile.present)

\* init(): ensureDataDir, then ensureDetailPagesExist, then listen.
StartServer ==
  /\ UNCHANGED clock
  /\ \E e \in {ensureDetailPagesExist(projectsFile, detailsFile, files)} :
       Respond("init", e.pf, e.df, e.fs, indexHtml, IF e.threw THEN 500 ELSE 200,
               e.wrote, e.savedDetails)

\* A project stored before the server first runs, its page being the
\* hand-written one and its id older than any Date.now() of the run.
StoredProject ==
  [id |-> 0, title |-> <<"Alpha">>, description |-> <<"Hello">>,
   image |-> <<"./assets/jpeg/a.jpg">>, imageStyle |-> <<>>,
   centerImage |-> FALSE, detailPage |-> CustomPage]

\* The files before the server first runs: there is no details store yet;
\* projects.json is missing, or it holds the stored project and the
\* hand-written page is there or not.
Init ==
  /\ \/ /\ projectsFile = [present |-> FALSE, projects |-> <<>>]
        /\ files = <<>>
     \/ /\ projectsFile = [present |-> TRUE, projects |-> <<StoredProject>>]
        /\ files \in {<<>>, [l \in {DetailFilePath(CustomPage)} |-> HandWritten]}
  /\ detailsFile = [present |-> FALSE, details |-> <<>>]
  /\ indexHtml = [present |-> TRUE, text |-> TemplateIndex]
  /\ clock = 1
  /\ last = [op |-> "none", status |-> 0, wrote |-> {}, overwrote |-> FALSE,
             savedDetails |-> FALSE]
  /\ requests = <<>>

Next ==
  \/ CreateProject
  \/ UpdateProject
  \/ RemoveProject
  \/ Reorder
  \/ GenerateAll
  \/ SaveDetail
  \/ RemoveDetail
  \/ GenerateDetail
  \/ StartServer

Spec == Init /\ [][Next]_vars


---------------------------------------------------------------------------
(* POST /api/projects on its own: one request on a store that earlier      *)
(* requests left behind.                                                   *)

CreateBodyWithId == [CreateBody(CustomPage) EXCEPT !.id = <<0>>]
CreateBodyNoDescription == [CreateBody(NullPath) EXCEPT !.description = NullText]

CreateOnceBodies ==
  CreateBodies \cup {CreateBodyWithId, CreateBodyNoDescription}

\* The record PUT /api/project-details/0 stored from a body whose overview
\* holds a null element; DELETE /api/projects/0 leaves it in the store.
BrokenDetail == NewDetail(0, BrokenBody)

\* An index.html without the markers of the projects section.
BareIndex == <<"<html>", "<section id=\"home\">", SectionClose, "</html>">>

\* The record files before the request: none, projects.json alone, both
\* empty, or those of the stored project with the record an earlier request
\* gave it; the broken record may have outlived its project.
CreateStores ==
  {<<[present |-> FALSE, projects |-> <<>>], [present |-> FALSE, details |-> <<>>]>>,
   <<[present |-> FALSE, projects |-> <<>>], [present |-> TRUE, details |-> <<>>]>>,
   <<[present |-> TRUE, projects |-> <<>>], [present |-> FALSE, details |-> <<>>]>>,
   <<[present |-> TRUE, projects |-> <<>>], [present |-> TRUE, details |-> <<>>]>>,
   <<[present |-> TRUE, projects |-> <<>>],
     [present |-> TRUE, details |-> <<BrokenDetail>>]>>,
   <<[present |-> TRUE, projects |-> <<StoredProject>>],
     [present |-> FALSE, details |-> <<>>]>>,
   <<[present |-> TRUE, projects |-> <<StoredProject>>],
     [present |-> TRUE, details |-> <<>>]>>,
   <<[present |-> TRUE, projects |-> <<StoredProject>>],
     [present |-> TRUE, details |-> <<BrokenDetail>>]>>,
   <<[present |-> TRUE, projects |-> <<StoredProject>>],
     [present |-> TRUE,
      details |-> <<DefaultDetail(StoredProject, CurrentYear)>>]>>}

InitCreate ==
  /\ \E store \in CreateStores :
       /\ projectsFile = store[1]
       /\ detailsFile = store[2]
  /\ files \in {<<>>, [l \in {DetailFilePath(CustomPage)} |-> HandWritten]}
  /\ indexHtml \in {[present |-> TRUE, text |-> TemplateIndex],
                    [present |-> TRUE, text |-> BareIndex]}
  /\ clock = 1
  /\ last = [op |-> "none", status |-> 0, wrote |-> {}, overwrote |-> FALSE,
             savedDetails |-> FALSE]
  /\ requests = <<>>

CreateOnce ==
  /\ last.op = "none"
  /\ \E body \in CreateOnceBodies, now \in clock..MaxClock : Create(body, now)

SpecCreate == InitCreate /\ [][CreateOnce]_vars
---------------------------------------------------------------------------
(* deleteGeneratedProjectDetailHtmlFile on its own: the files on disk are  *)
(* drawn from the locations below and the function is applied to each of   *)
(* the path strings.                                                       *)

Project3 == NumSeg("project-", 3, ".html")

\* Where files may stand: in the site root, under it, and outside it.
DeleteLocations ==
  {ROOT_DIR \o <<Project3>>,
   ROOT_DIR \o <<Seg("about.html")>>,
   ROOT_DIR \o <<NumSeg("PROJECT-", 4, ".HTML")>>,
   ROOT_DIR \o <<Seg("sub"), NumSeg("project-", 5, ".html")>>,
   ROOT_DIR \o <<NumSeg("project-", 3, ".html.bak")>>,
   <<Seg("outside.html")>>,
   <<Project3>>}

\* null, "", " ", "./", "./project-3.html", "project-3.html", "./about.html",
\* "../outside.html", "../project-3.html", "/project-3.html",
\* "./PROJECT-4.HTML", "sub/project-5.html", "./project-9.html",
\* "./custom.html", "project-3.html.bak", "sub/../project-3.html"
DeletePathInputs ==
  {NullPath,
   EmptyPath,
   <<Seg(" ")>>,
   <<Seg("."), Seg("")>>,
   <<Seg("."), Project3>>,
   <<Project3>>,
   <<Seg("."), Seg("about.html")>>,
   OutsidePage,
   <<Seg(".."), Project3>>,
   <<Seg(""), Project3>>,
   <<Seg("."), NumSeg("PROJECT-", 4, ".HTML")>>,
   <<Seg("sub"), NumSeg("project-", 5, ".html")>>,
   <<Seg("."), NumSeg("project-", 9, ".html")>>,
   CustomPage,
   <<NumSeg("project-", 3, ".html.bak")>>,
   <<Seg("sub"), Seg(".."), Project3>>}

InitDelete ==
  /\ projectsFile = [present |-> FALSE, projects |-> <<>>]
  /\ detailsFile = [present |-> FALSE, details |-> <<>>]
  /\ \E present \in SUBSET DeleteLocations : files = [l \in present |-> HandWritten]
  /\ indexHtml = [present |-> TRUE, text |-> TemplateIndex]
  /\ clock = 0
  /\ last = [op |-> "none"]
  /\ requests = <<>>

\* One call; last keeps the argument, the files before and the object returned.
DeleteFile ==
  /\ \E detailPagePath \in DeletePathInputs :
     \E r \in {deleteGeneratedProjectDetailHtmlFile(files, detailPagePath)} :
       /\ files' = r.files
       /\ last' = [op |-> "delete", path |-> detailPagePath, before |-> files,
                   result |-> r.result]
  /\ UNCHANGED <<projectsFile, detailsFile, indexHtml, clock, requests>>

NextDelete == DeleteFile

SpecDelete == InitDelete /\ [][NextDelete]_vars

---------------------------------------------------------------------------
(* generateIndexHtml on its own: index.html is drawn from the documents    *)
(* over the chunks below, projects.json from the lists below, and the      *)
(* function is applied up to MaxPatches times.                             *)

MaxDocLen == 5
MaxPatches == 2

ContactOpen == "<section id=\"contact\">"

DocChunks ==
  {projectsStartMarker, nextSectionStartMarker, SectionClose, ContactOpen, "text"}

Documents == UNION {[1..n -> DocChunks] : n \in 0..MaxDocLen}

ListedProject(description) ==
  [id |-> 1, title |-> <<"Alpha">>, description |-> description,
   image |-> <<"./assets/jpeg/a.jpg">>, imageStyle |-> <<>>,
   centerImage |-> FALSE, detailPage |-> AutoDetailPage(1)]

\* The descriptions of a listed project: plain text, a paragraph that
\* carries the class, a paragraph that does not, a <pre> element, and a plain
\* paragraph followed by a span of class projects__row-content-desc2.
DescriptionInputs ==
  {<<"Hello">>,
   <<"<p class=\"projects__row-content-desc\">", "Hi", "</p>">>,
   <<"<p>", "Hi", "</p>">>,
   <<"<pre>", "x = 1", "</pre>">>,
   <<"<p>", "Hi", "</p>", "<span class=\"projects__row-content-desc2\">", "beta",
     "</span>">>}

\* A listed project with its own id and title.
TitledProject(id, title) ==
  [ListedProject(<<"Hello">>) EXCEPT !.id = id, !.title = <<title>>]

\* Lists of several projects, ordered neither by id nor by title, and one
\* that holds a project twice.
OrderedLists ==
  {<<TitledProject(1, "Alpha"), TitledProject(2, "Beta")>>,
   <<TitledProject(2, "Beta"), TitledProject(1, "Alpha")>>,
   <<TitledProject(3, "Gamma"), TitledProject(1, "Alpha"), TitledProject(2, "Beta")>>,
   <<TitledProject(1, "Alpha"), TitledProject(1, "Alpha")>>}

\* No project, one project, one project stored without a description,
\* several projects.
ProjectLists ==
  {<<>>, <<ListedProject(NullText)>>}
  \cup {<<ListedProject(description)>> : description \in DescriptionInputs}
  \cup OrderedLists

InitPatch ==
  /\ \E projects \in ProjectLists :
       projectsFile = [present |-> TRUE, projects |-> projects]
  /\ detailsFile = [present |-> FALSE, details |-> <<>>]
  /\ files = <<>>
  /\ \E doc \in Documents : indexHtml = [present |-> TRUE, text |-> doc]
  /\ clock = 0
  /\ last = [op |-> "none"]
  /\ requests = <<>>

\* One call; clock counts the calls and last keeps the text read and whether
\* the call wrote index.html or threw.
Patch ==
  /\ clock < MaxPatches
  /\ clock' = clock + 1
  /\ \E gi \in {generateIndexHtml(projectsFile, indexHtml)} :
       /\ projectsFile' = gi.pf
       /\ indexHtml' = gi.ix
       /\ last' = [op |-> "patch", before |-> indexHtml.text, wrote |-> gi.wrote,
                   threw |-> gi.threw]
  /\ UNCHANGED <<detailsFile, files, requests>>

NextPatch == Patch

SpecPatch == InitPatch /\ [][NextPatch]_vars

---------------------------------------------------------------------------
(* generateDetailPageHtml on its own: the detail record is drawn from the  *)
(* records below and rendered once.                                        *)

ImageItem(src, caption) == [kind |-> "object", src |-> src, caption |-> caption]
LinkItem == [kind |-> "object", url |-> <<"https://example.org">>, label |-> <<"Code">>]
Block(subtitle, description) ==
  [kind |-> "object", subtitle |-> subtitle, description |-> description,
   image |-> Null]
MainContent(title, blocks) ==
  [kind |-> "object", title |-> title, description |-> <<"Intro", "\n\n", "More">>,
   blocks |-> blocks, conclusion |-> NullText]

OverviewInputs ==
  {Null, Arr(<<>>), Arr(<<Para(<<"About">>)>>), Arr(<<Para(<<"About">>), Null>>)}

MainContentInputs ==
  {Null,
   MainContent(NullText, Null),
   MainContent(<<" ">>, Null),
   MainContent(<<"Design">>, Null),
   MainContent(<<"Design">>, Arr(<<Block(<<"Step">>, NullText), Null>>))}

AdditionalImagesInputs ==
  {Null, Arr(<<>>), Arr(<<ImageItem(<<"./a.jpg">>, NullText)>>),
   Arr(<<ImageItem(<<"./a.jpg">>, <<"Fig">>), Null>>)}

LinksInputs == {Null, Arr(<<LinkItem>>), Arr(<<LinkItem, Null>>)}

MetaInputs ==
  {Null,
   [kind |-> "object", role |-> <<"Engineer">>, company |-> <<>>,
    projectType |-> <<>>, projectDate |-> <<"2026">>]}

ListInputs == {Null, Arr(<< <<"<li>", "Fast", "</li>">>, NullText >>)}

FutureInputs == {Null, Arr(<< <<"1.", " ", "Port">> >>)}

SkillsInputs == {Null, Arr(<<>>), Arr(<< <<"TLA+">> >>)}

DetailInputs ==
  {[kind |-> "object", projectId |-> 1, heroImage |-> <<>>, meta |-> meta,
    overview |-> overview, mainContent |-> mainContent,
    additionalImages |-> additionalImages, keyContributions |-> list,
    futureDevelopment |-> future, skills |-> skills, links |-> links] :
     meta \in MetaInputs, overview \in OverviewInputs,
     mainContent \in MainContentInputs,
     additionalImages \in AdditionalImagesInputs, list \in ListInputs,
     future \in FutureInputs, skills \in SkillsInputs, links \in LinksInputs}

MaxItemLen == 3

\* The pieces a list item is made of.
ItemChunks ==
  {"<ul>", "</ul>", "<li>", "</li>", "-", " ", "Built ", "<strong>X</strong>"}

\* The list items: every text of at most MaxItemLen pieces, and the item
\* "<ul><li>Built <strong>X</strong></li></ul>".
ItemInputs ==
  UNION {[1..n -> ItemChunks] : n \in 0..MaxItemLen}
  \cup {<<"<ul>", "<li>", "Built ", "<strong>X</strong>", "</li>", "</ul>">>}

\* A record whose two sanitized lists hold the one item and nothing else.
ItemDetail(item) ==
  [kind |-> "object", projectId |-> 1, heroImage |-> <<>>, meta |-> Null,
   overview |-> Null, mainContent |-> Null, additionalImages |-> Null,
   keyContributions |-> Arr(<<item>>), futureDevelopment |-> Arr(<<item>>),
   skills |-> Null, links |-> Null]

ItemDetailInputs == {ItemDetail(item) : item \in ItemInputs}

MaxBlocks == 2

ImageBlock(src) ==
  [kind |-> "object", subtitle |-> NullText, description |-> NullText,
   image |-> ImageItem(src, NullText)]

\* The blocks of a main content: null, one whose fields are all white
\* space or missing, two with a subtitle, one with a description only and
\* one with an image only.
BlockInputs ==
  {Null, Block(<<" ">>, NullText), Block(<<"One">>, NullText),
   Block(<<" ", "Two">>, NullText), Block(NullText, <<"Body">>),
   ImageBlock(<<"./b.jpg">>)}

\* The titles of a main content: missing, empty, white space, text.
TitleInputs == {NullText, <<>>, <<" ">>, <<"Design">>, <<" ", "Design", " ">>}

\* A record that has a main content and nothing else.
BlocksDetail(title, blocks) ==
  [kind |-> "object", projectId |-> 1, heroImage |-> <<>>, meta |-> Null,
   overview |-> Null,
   mainContent |-> [kind |-> "object", title |-> title, description |-> NullText,
                    blocks |-> Arr(blocks), conclusion |-> NullText],
   additionalImages |-> Null, keyContributions |-> Null,
   futureDevelopment |-> Null, skills |-> Null, links |-> Null]

BlocksDetailInputs ==
  {BlocksDetail(title, blocks) :
     title \in TitleInputs,
     blocks \in UNION {[1..n -> BlockInputs] : n \in 0..MaxBlocks}}

MaxOverviewLen == 3

OverviewItem(type, content) ==
  [kind |-> "object", type |-> type, content |-> <<content>>, src |-> <<"./o.jpg">>,
   caption |-> <<>>]

\* The items of an overview: one of each type the renderer knows, a second
\* bullet, an image with a caption and an item of a type it does not know.
OverviewItemInputs ==
  {OverviewItem("paragraph", "P"), OverviewItem("heading", "H"),
   OverviewItem("bullet", "B1"), OverviewItem("bullet", "B2"),
   OverviewItem("note", "N"), OverviewItem("image", "I"),
   [OverviewItem("image", "J") EXCEPT !.caption = <<"Fig">>],
   OverviewItem("quote", "Q")}

\* A record that has an overview and nothing else.
OverviewDetail(items) ==
  [kind |-> "object", projectId |-> 1, heroImage |-> <<>>, meta |-> Null,
   overview |-> Arr(items), mainContent |-> Null, additionalImages |-> Null,
   keyContributions |-> Null, futureDevelopment |-> Null, skills |-> Null,
   links |-> Null]

OverviewDetailInputs ==
  {OverviewDetail(items) :
     items \in UNION {[1..n -> OverviewItemInputs] : n \in 0..MaxOverviewLen}}

InitRender ==
  /\ projectsFile = [present |-> FALSE, projects |-> <<>>]
  /\ \E detail \in DetailInputs \cup ItemDetailInputs \cup BlocksDetailInputs
                  \cup OverviewDetailInputs :
       detailsFile = [present |-> TRUE, details |-> <<detail>>]
  /\ files = <<>>
  /\ indexHtml = [present |-> TRUE, text |-> TemplateIndex]
  /\ clock = 0
  /\ last = [op |-> "none"]
  /\ requests = <<>>

\* One call on the stored record: last keeps the record and [threw, html].
Render ==
  /\ clock = 0
  /\ clock' = 1
  /\ \E detail \in {detailsFile.details[1]} :
     \E page \in {generateDetailPageHtml(detail, <<"Alpha">>, AutoDetailPage(1))} :
       last' = [op |-> "render", detail |-> detail, result |-> page]
  /\ UNCHANGED <<projectsFile, detailsFile, files, indexHtml, requests>>

NextRender == Render

SpecRender == InitRender /\ [][NextRender]_vars

---------------------------------------------------------------------------
(* Two POST /api/projects requests in flight at once.  A handler runs up   *)
(* to its next await and then any other may run; each step below is the    *)
(* code between two awaits.  fs.writeFile of projects.json is two steps:   *)
(* the file is opened, which truncates it, and later holds the new text.   *)

Requests == {1, 2}

\* The two bodies: no detailPage, titles Alpha and Beta.
RaceBody(r) ==
  [CreateBody(NullPath) EXCEPT !.title = IF r = 1 THEN <<"Alpha">> ELSE <<"Beta">>]

\* The locals of a handler that has not started.
NotStarted ==
  [pc |-> "loadProjects", data |-> <<>>, maxNum |-> 0, projectNumber |-> 0,
   newProject |-> <<>>,
   detailsData |-> <<>>, status |-> 0]

\* The record files before the two requests: none, empty ones, or those of
\* the stored project.
RaceStores ==
  {<<[present |-> FALSE, projects |-> <<>>], [present |-> FALSE, details |-> <<>>]>>,
   <<[present |-> TRUE, projects |-> <<>>], [present |-> TRUE, details |-> <<>>]>>,
   <<[present |-> TRUE, projects |-> <<StoredProject>>],
     [present |-> TRUE, details |-> <<DefaultDetail(StoredProject, CurrentYear)>>]>>}

InitRace ==
  /\ \E store \in RaceStores :
       /\ projectsFile = store[1]
       /\ detailsFile = store[2]
  /\ files = <<>>
  /\ indexHtml = [present |-> TRUE, text |-> TemplateIndex]
  /\ clock = 1
  /\ last = [op |-> "none"]
  /\ requests = [r \in Requests |-> NotStarted]

\* const data = await loadProjects()
RaceLoadProjects ==
  \E r \in Requests :
    /\ requests[r].pc = "loadProjects"
    /\ \E pf \in {loadProjects(projectsFile)} :
         /\ projectsFile' = pf
         /\ requests' = [requests EXCEPT ![r].pc = "getNextProjectNumber",
                                         ![r].data = pf.projects]
    /\ last' = [op |-> "loadProjects", by |-> r]
    /\ UNCHANGED <<detailsFile, files, indexHtml, clock>>

\* getNextProjectNumber up to its readdir: await loadProjects() and the loop
\* over the stored projects.
RaceNumberFromProjects ==
  \E r \in Requests :
    /\ requests[r].pc = "getNextProjectNumber"
    /\ \E pf \in {loadProjects(projectsFile)} :
       \E maxNum \in {SetMax(NumbersOfProjects(pf.projects))} :
         /\ projectsFile' = pf
         /\ requests' = [requests EXCEPT ![r].pc = "readdir",
                                         ![r].maxNum = maxNum]
    /\ last' = [op |-> "getNextProjectNumber", by |-> r]
    /\ UNCHANGED <<detailsFile, files, indexHtml, clock>>

\* The rest of getNextProjectNumber: await fs.readdir(ROOT_DIR), the loop
\* over the file names, return maxNum + 1.
RaceNumberFromFiles ==
  \E r \in Requests :
    /\ requests[r].pc = "readdir"
    /\ \E maxNum \in {SetMax({requests[r].maxNum} \cup NumbersOfFiles(files))} :
         requests' = [requests EXCEPT ![r].pc = "saveProjects",
                                      ![r].projectNumber = maxNum + 1]
    /\ last' = [op |-> "readdir", by |-> r]
    /\ UNCHANGED <<projectsFile, detailsFile, files, indexHtml, clock>>

\* newProject is built, unshifted, and saveProjects calls fs.writeFile, which
\* opens projects.json for writing.
RaceOpenProjects ==
  \E r \in Requests :
    /\ requests[r].pc = "saveProjects"
    /\ \E detailPage \in {AutoDetailPage(requests[r].projectNumber)} :
       \E newProject \in {NewProject(RaceBody(r), clock, detailPage)} :
         requests' = [requests EXCEPT ![r].pc = "writeFile",
                                      ![r].newProject = <<newProject>>]
    /\ projectsFile' = [present |-> TRUE, projects |-> Unparsable]
    /\ clock' = clock + 1
    /\ last' = [op |-> "open", by |-> r]
    /\ UNCHANGED <<detailsFile, files, indexHtml>>

\* The write of saveProjects(data) completes.
RaceWriteProjects ==
  \E r \in Requests :
    /\ requests[r].pc = "writeFile"
    /\ projectsFile' = saveProjects(requests[r].newProject \o requests[r].data)
    /\ requests' = [requests EXCEPT ![r].pc = "loadProjectDetails"]
    /\ last' = [op |-> "saveProjects", by |-> r]
    /\ UNCHANGED <<detailsFile, files, indexHtml, clock>>

\* const detailsData = await loadProjectDetails()
RaceLoadDetails ==
  \E r \in Requests :
    /\ requests[r].pc = "loadProjectDetails"
    /\ \E df \in {loadProjectDetails(detailsFile)} :
         /\ detailsFile' = df
         /\ requests' = [requests EXCEPT ![r].pc = "saveProjectDetails",
                                         ![r].detailsData = df.details]
    /\ last' = [op |-> "loadProjectDetails", by |-> r]
    /\ UNCHANGED <<projectsFile, files, indexHtml, clock>>

\* detailsData.details.push(newDetail); await saveProjectDetails(detailsData)
RaceSaveDetails ==
  \E r \in Requests :
    /\ requests[r].pc = "saveProjectDetails"
    /\ \E newDetail \in {DefaultDetail(requests[r].newProject[1], CurrentYear)} :
         detailsFile' = saveProjectDetails(PushDetail(requests[r].detailsData,
                                                      newDetail))
    /\ requests' = [requests EXCEPT ![r].pc = "saveDetailPageHtml"]
    /\ last' = [op |-> "saveProjectDetails", by |-> r]
    /\ UNCHANGED <<projectsFile, files, indexHtml, clock>>

\* await saveDetailPageHtml(newProject.id, newProject.title, detailPage)
RaceSavePage ==
  \E r \in Requests :
    /\ requests[r].pc = "saveDetailPageHtml"
    /\ \E newProject \in {requests[r].newProject[1]} :
       \E sd \in {saveDetailPageHtml(detailsFile, files, newProject.id,
                                     newProject.title, newProject.detailPage)} :
         /\ detailsFile' = sd.df
         /\ files' = sd.fs
         /\ requests' = [requests EXCEPT
                           ![r].pc = IF sd.threw THEN "done" ELSE "generateIndexHtml",
                           ![r].status = IF sd.threw THEN 500 ELSE 0]
    /\ last' = [op |-> "saveDetailPageHtml", by |-> r]
    /\ UNCHANGED <<projectsFile, indexHtml, clock>>

\* await generateIndexHtml(); res.json({ success: true, project: newProject })
RaceRegenerate ==
  \E r \in Requests :
    /\ requests[r].pc = "generateIndexHtml"
    /\ \E gi \in {generateIndexHtml(projectsFile, indexHtml)} :
         /\ projectsFile' = gi.pf
         /\ indexHtml' = gi.ix
         /\ requests' = [requests EXCEPT
                           ![r].pc = "done",
                           ![r].status = IF gi.threw THEN 500 ELSE 200]
    /\ last' = [op |-> "generateIndexHtml", by |-> r]
    /\ UNCHANGED <<detailsFile, files, clock>>

NextRace ==
  \/ RaceLoadProjects
  \/ RaceNumberFromProjects
  \/ RaceNumberFromFiles
  \/ RaceOpenProjects
  \/ RaceWriteProjects
  \/ RaceLoadDetails
  \/ RaceSaveDetails
  \/ RaceSavePage
  \/ RaceRegenerate

SpecRace == InitRace /\ [][NextRace]_vars

---------------------------------------------------------------------------
(* The detail editor of the admin page: populateDetailForm fills the form  *)
(* from the stored record and saveDetailPage builds the record it sends    *)
(* to PUT /api/project-details/:projectId from the form.  Nothing is typed *)
(* between the two.  requests holds the form while it is open.             *)

\* The line of the overview textarea that stands for one item.
OverviewItemText(item) ==
  CASE item.type = "paragraph" -> item.content
    [] item.type = "heading" -> <<"<strong>">> \o item.content \o <<"</strong>">>
    [] item.type = "bullet" -> <<"(bullet)", " ">> \o item.content
    [] item.type = "note" -> <<"NOTE:", " ">> \o item.content
    [] OTHER -> <<>>

\* The fields of the form that populateDetailForm sets from meta and
\* overview: role is meta.role || meta.projectType || '', the overview is
\* the items' lines joined by blank lines.
populateDetailForm(detail) ==
  One({[role |-> IF meta.role # <<>> THEN meta.role ELSE meta.projectType,
        company |-> meta.company,
        projectDate |-> meta.projectDate,
        overview |-> IF NonEmptyArr(detail.overview)
                     THEN Join([i \in DOMAIN detail.overview.items |->
                                  OverviewItemText(detail.overview.items[i])],
                               <<"\n\n">>)
                     ELSE <<>>] :
       meta \in {MetaOf(detail)}})

\* The item saveDetailPage pushes for one trimmed, non-empty paragraph of
\* the textarea.
ParseOverviewParagraph(trimmed) ==
  IF Head(trimmed) = "NOTE:"
  THEN [kind |-> "object", type |-> "note", content |-> TrimText(Tail(trimmed))]
  ELSE IF Head(trimmed) = "(bullet)"
  THEN [kind |-> "object", type |-> "bullet", content |-> TrimText(Tail(trimmed))]
  ELSE IF Head(trimmed) = "<strong>" /\ trimmed[Len(trimmed)] = "</strong>"
  THEN [kind |-> "object", type |-> "heading",
        content |-> SelectSeq(trimmed, LAMBDA c : c \notin {"<strong>", "</strong>"})]
  ELSE [kind |-> "object", type |-> "paragraph", content |-> trimmed]

\* detailData as far as it is built from those fields: meta and overview.
\* The textarea is split at blank lines, each piece trimmed, the empty ones
\* skipped.
DetailData(form) ==
  One({[meta |-> [kind |-> "object", role |-> form.role, company |-> form.company,
                  projectDate |-> form.projectDate],
        overview |-> Arr([i \in DOMAIN paragraphs |->
                            ParseOverviewParagraph(paragraphs[i])])] :
       paragraphs \in {ParagraphParts(form.overview)}})

\* An overview item with a content; an image item.
EditorItem(type, content) == [kind |-> "object", type |-> type, content |-> content]
EditorImage == [kind |-> "object", type |-> "image", src |-> <<"./o.jpg">>,
                caption |-> <<"Fig">>]

\* One item of each type, a second paragraph and a second bullet.
EditorItemInputs ==
  {EditorItem("paragraph", <<"P">>), EditorItem("paragraph", <<"Q">>),
   EditorItem("heading", <<"H">>), EditorItem("bullet", <<"B1">>),
   EditorItem("bullet", <<"B2">>), EditorItem("note", <<"N">>), EditorImage}

\* No meta, a role, a projectType, both.
EditorMeta(role, projectType) ==
  [kind |-> "object", role |-> role, company |-> <<"Acme">>,
   projectType |-> projectType, projectDate |-> <<"2026">>]
EditorMetaInputs ==
  {Null, EditorMeta(<<"Engineer">>, <<>>), EditorMeta(<<>>, <<"Thesis">>),
   EditorMeta(<<"Engineer">>, <<"Thesis">>)}

EditorDetailInputs ==
  {[OverviewDetail(items) EXCEPT !.meta = meta] :
     items \in UNION {[1..n -> EditorItemInputs] : n \in 0..MaxOverviewLen},
     meta \in EditorMetaInputs}

InitEditor ==
  /\ projectsFile = [present |-> TRUE, projects |-> <<StoredProject>>]
  /\ \E detail \in EditorDetailInputs :
       detailsFile = [present |-> TRUE, details |-> <<detail>>]
  /\ files = <<>>
  /\ indexHtml = [present |-> TRUE, text |-> TemplateIndex]
  /\ clock = 0
  /\ last = [op |-> "none"]
  /\ requests = <<>>

\* The editor is opened on the stored record.
OpenDetailEditor ==
  /\ requests = <<>>
  /\ \E form \in {populateDetailForm(detailsFile.details[1])} :
       requests' = <<form>>
  /\ last' = [op |-> "populateDetailForm"]
  /\ UNCHANGED <<projectsFile, detailsFile, files, indexHtml, clock>>

\* Save is pressed: last keeps the record sent.
SaveDetailPage ==
  /\ requests # <<>>
  /\ last.op = "populateDetailForm"
  /\ \E detailData \in {DetailData(requests[1])} :
       last' = [op |-> "saveDetailPage", sent |-> detailData]
  /\ UNCHANGED <<projectsFile, detailsFile, files, indexHtml, clock, requests>>

NextEditor ==
  \/ OpenDetailEditor
  \/ SaveDetailPage

SpecEditor == InitEditor /\ [][NextEditor]_vars

---------------------------------------------------------------------------
(* Properties of generateIndexHtml, checked under SpecPatch                *)

\* C1 (as stated): patching is idempotent: a second call with the same
\* project list leaves index.html exactly as the first call wrote it,
\* including the whitespace before the start marker.
PatchIsIdempotent ==
  (last.op = "patch" /\ clock = MaxPatches /\ last.wrote)
    => indexHtml.text = last.before

\* The offset of the first '</section>' after the start marker, the closing
\* tag of the listing section itself.
OwnClose(text) ==
  One({IndexOf(text, SectionClose, start) :
       start \in {IndexOf(text, projectsStartMarker, 1)}})

\* The text with the span from the start marker to offset close replaced.
OwnSectionReplaced(text, projects, close) ==
  One({SubSeq(text, 1, start - 1) \o NewProjectsSection(projects)
         \o Substring(text, close + 1) :
       start \in {IndexOf(text, projectsStartMarker, 1)}})

\* C2 (as stated): a patch replaces the listing section only: what stands
\* before the start marker and after the section's own closing tag, such as
\* further sections before the script marker, is kept as it was.
PatchKeepsOtherSections ==
  (last.op = "patch" /\ last.wrote)
    => \E close \in {OwnClose(last.before)} :
         (close # NotFound
          /\ close < IndexOf(last.before, nextSectionStartMarker, 1))
           => indexHtml.text
                = OwnSectionReplaced(last.before, projectsFile.projects, close)

\* The chunk stands nowhere in the text.
Absent(text, chunk) == \A i \in 1..Len(text) : text[i] # chunk

\* C9: when the start marker or the script marker is absent from index.html,
\* generateIndexHtml writes nothing, leaves the text as it was and does not
\* throw, whatever the project list.
MissingMarkerLeavesIndexIntact ==
  (last.op = "patch"
   /\ (Absent(last.before, projectsStartMarker)
       \/ Absent(last.before, nextSectionStartMarker)))
    => (~last.wrote /\ ~last.threw /\ indexHtml.text = last.before)

\* C9 happens: the start marker is there, the script marker is not, and the
\* one project of the list has no description.
MissingScriptMarkerPatched ==
  /\ last.op = "patch"
  /\ ~Absent(last.before, projectsStartMarker)
  /\ Absent(last.before, nextSectionStartMarker)
  /\ projectsFile.projects = <<ListedProject(NullText)>>
  /\ ~last.wrote

---------------------------------------------------------------------------
(* Properties of the detail page writers, checked under Spec               *)

\* The location is the site root or below it.
UnderRoot(loc) ==
  Len(loc) >= Len(ROOT_DIR) /\ SubSeq(loc, 1, Len(ROOT_DIR)) = ROOT_DIR

\* C3 (as stated): every detail page a request writes lies inside the site
\* root, whatever detailPage the project carries.
WritesStayInsideRoot == \A loc \in last.wrote : UnderRoot(loc)

RegeneratingRequests == {"create-project", "save-detail", "generate-detail"}

AllPagesExist ==
  \A i \in 1..Len(projectsFile.projects) :
    \E detailPage \in {projectsFile.projects[i].detailPage} :
      Truthy(detailPage) => Exists(files, DetailFilePath(detailPage))

\* C5: after ensureDetailPagesExist has run (server start), every missing
\* page has been written, and a second run on the same files writes no
\* detail page and does not write the details store.
SecondEnsureWritesNothing ==
  last.op = "init"
    => /\ last.status = 200 => AllPagesExist
       /\ \E again \in {ensureDetailPagesExist(projectsFile, detailsFile, files)} :
            /\ again.wrote = {}
            /\ ~again.savedDetails
            /\ again.fs = files
            /\ again.df = detailsFile

\* C5 happens: the first run wrote a page and saved a synthesized detail.
FirstEnsureWrotePageAndDetail ==
  /\ last.op = "init"
  /\ last.status = 200
  /\ last.wrote # {}
  /\ last.savedDetails

---------------------------------------------------------------------------
(* Properties of deleteGeneratedProjectDetailHtmlFile, under SpecDelete    *)

\* Where the path string points: path.resolve of the normalized string.
Target(path) ==
  One({PathResolve(ROOT_DIR, relative) : relative \in {normalizeRelativePath(path)}})

\* The normalized string is not ''.
NormalizedNonEmpty(path) == normalizeRelativePath(path) # EmptyPath

\* The last segment of the normalized string is project-<digits>.html,
\* letter case ignored.
NamesGeneratedPage(path) ==
  \E base \in {Basename(normalizeRelativePath(path))} :
    /\ base.pre \in {"project-", "PROJECT-"}
    /\ Len(base.num) = 1
    /\ base.post \in {".html", ".HTML"}

Refused(reason) == [deleted |-> FALSE, reason |-> reason]

\* C6 (as stated): every path that resolves outside the site root is
\* refused with reason "unsafe-path" and no file is removed.
OutsideRootIsUnsafePath ==
  (last.op = "delete" /\ ~UnderRoot(Target(last.path)))
    => (last.result = Refused("unsafe-path") /\ files = last.before)

\* C6 (amended): every path that resolves outside the site root is refused
\* and no file is removed; the reason is "unsafe-path" when the name is that
\* of a generated page and "not-generated" otherwise, the name being tested
\* first.
OutsideRootIsRefused ==
  (last.op = "delete" /\ ~UnderRoot(Target(last.path)))
    => /\ files = last.before
       /\ last.result = IF NamesGeneratedPage(last.path)
                        THEN Refused("unsafe-path")
                        ELSE Refused("not-generated")

\* C6 happens: "../project-3.html" was refused while that file was there.
OutsideGeneratedNameRefused ==
  /\ last.op = "delete"
  /\ last.path = <<Seg(".."), Project3>>
  /\ Exists(last.before, <<Project3>>)
  /\ last.result = Refused("unsafe-path")

\* C7: a file is removed only when the name is that of a generated page; any
\* other path whose normalized string is not empty is refused with reason
\* "not-generated" and the files are as they were.
OnlyGeneratedNamesAreDeleted ==
  last.op = "delete"
    => /\ files # last.before => NamesGeneratedPage(last.path)
       /\ (NormalizedNonEmpty(last.path) /\ ~NamesGeneratedPage(last.path))
            => (last.result = Refused("not-generated") /\ files = last.before)

\* C7 happens: "project-3.html.bak" was refused while that file was there.
BackupFileRefused ==
  /\ last.op = "delete"
  /\ last.path = <<NumSeg("project-", 3, ".html.bak")>>
  /\ Exists(last.before, Target(last.path))
  /\ last.result = Refused("not-generated")
  /\ files = last.before

---------------------------------------------------------------------------
(* Properties of generateDetailPageHtml, checked under SpecRender          *)

\* C10 (as stated): the renderer never throws: for every detail record,
\* with fields missing or null and with null elements in its arrays, it
\* returns a complete document.
RendererNeverThrows ==
  last.op = "render"
    => (~last.result.threw /\ last.result.html # <<>>
        /\ last.result.html[Len(last.result.html)] = "</html>")


\* The chunks that open the optional sections of a detail page.
MainContentOpen ==
  "<div class=\"project-details__tools-used project-details__main-content\">"
ImagesHeading == "<h3 class=\"project-details__content-title\">Images</h3>"
KeyContributionsHeading ==
  "<h3 class=\"project-details__content-title\">Key Contributions</h3>"
FutureDevHeading ==
  "<h3 class=\"project-details__content-title\">Future Development</h3>"
SkillsHeading ==
  "<h3 class=\"project-details__content-title\">Skills and Tools Used</h3>"
LinksOpen == "<div class=\"project-details__links\">"

OptionalSectionOpeners ==
  {MainContentOpen, ImagesHeading, KeyContributionsHeading, FutureDevHeading,
   SkillsHeading, LinksOpen}

\* An array field that is missing, null or empty.
FieldAbsent(v) == IsNull(v) \/ (v.kind = "array" /\ v.items = <<>>)

AllOptionalAbsent(detail) ==
  /\ detail.heroImage = <<>>
  /\ IsNull(detail.meta)
  /\ IsNull(detail.mainContent)
  /\ FieldAbsent(detail.overview)
  /\ FieldAbsent(detail.additionalImages)
  /\ FieldAbsent(detail.keyContributions)
  /\ FieldAbsent(detail.futureDevelopment)
  /\ FieldAbsent(detail.skills)
  /\ FieldAbsent(detail.links)

\* C11: for a detail record with all optional fields absent (missing, null
\* or an empty array) the renderer returns a complete document that holds
\* none of the main-content, legacy-images, key-contributions,
\* future-development, skills and links sections.
MinimalDocumentHasNoOptionalSections ==
  (last.op = "render" /\ AllOptionalAbsent(last.detail))
    => /\ ~last.result.threw
       /\ last.result.html # <<>>
       /\ Head(last.result.html) = "<!DOCTYPE html>"
       /\ last.result.html[Len(last.result.html)] = "</html>"
       /\ ~Includes(last.result.html, OptionalSectionOpeners)

\* C11 happens: a record whose optional fields are all null was rendered.
AllNullRecordRendered ==
  /\ last.op = "render"
  /\ AllOptionalAbsent(last.detail)
  /\ IsNull(last.detail.overview) /\ IsNull(last.detail.additionalImages)
  /\ IsNull(last.detail.keyContributions) /\ IsNull(last.detail.futureDevelopment)
  /\ IsNull(last.detail.skills) /\ IsNull(last.detail.links)
  /\ ~last.result.threw

\* mainContent.title is set: a string with a character that is not blank.
TitleIsSet(detail) ==
  /\ ~IsNull(detail.mainContent)
  /\ detail.mainContent.title # NullText
  /\ TrimText(detail.mainContent.title) # <<>>

\* C12: when mainContent.title is set the output holds no legacy images
\* section, whatever additionalImages contains, and no output holds both a
\* main-content section and a legacy images section.
MainContentSupersedesLegacyImages ==
  last.op = "render"
    => /\ TitleIsSet(last.detail)
            => ~Includes(last.result.html, {ImagesHeading})
       /\ ~(Includes(last.result.html, {MainContentOpen})
            /\ Includes(last.result.html, {ImagesHeading}))

\* C12 happens: a record with a main-content title and a non-empty
\* additionalImages array (one of its elements null) was rendered.
TitledRecordWithImagesRendered ==
  /\ last.op = "render"
  /\ TitleIsSet(last.detail)
  /\ NonEmptyArr(last.detail.additionalImages)
  /\ Len(last.detail.additionalImages.items) = 2
  /\ ~last.result.threw
  /\ Includes(last.result.html, {MainContentOpen})

\* The rendered record is one of the one-item records.
OneItemRendered ==
  /\ last.op = "render"
  /\ last.detail \in ItemDetailInputs

\* What the list under heading holds between its <ul ...> and its </ul>.
EmittedItems(html, heading) ==
  LET i == IndexOf(html, heading, 1)
      j == IndexOf(html, "</ul>", i + 1)
  IN  SubSeq(html, i + 2, j - 1)

\* The enclosing list-wrapper tags of a text: those at its two ends.
RECURSIVE DropEnclosingWrappers(_)
DropEnclosingWrappers(t) ==
  LET s == TrimText(t)
  IN  IF s # <<>> /\ Head(s) \in ListWrapperTags
      THEN DropEnclosingWrappers(Tail(s))
      ELSE IF s # <<>> /\ s[Len(s)] \in ListWrapperTags
      THEN DropEnclosingWrappers(SubSeq(s, 1, Len(s) - 1))
      ELSE s

\* The sanitized item as stated: the enclosing list-wrapper tags, one
\* leading and one trailing list-item tag and one leading bullet marker are
\* stripped, the rest is trimmed and otherwise unchanged.
StatedSanitized(value) ==
  LET t1 == DropEnclosingWrappers(value)
      t2 == TrimText(IF t1 # <<>> /\ Head(t1) \in ListItemOpenTags
                     THEN Tail(t1) ELSE t1)
      t3 == TrimText(IF t2 # <<>> /\ t2[Len(t2)] \in ListItemEndTags
                     THEN SubSeq(t2, 1, Len(t2) - 1) ELSE t2)
  IN  TrimText(IF Len(t3) >= 2 /\ t3[1] \in BulletMarkers \cup NumberMarkers
                  /\ t3[2] \in White
               THEN Tail(t3) ELSE t3)

\* The list a section holds for the one item: nothing when the item
\* sanitizes to the empty text.
StatedList(value) ==
  LET s == StatedSanitized(value)
  IN  IF s = <<>> THEN <<>> ELSE <<"<li>">> \o s \o <<"</li>">>

\* C13 (as stated): an item is emitted with its enclosing list-wrapper tags,
\* one leading and one trailing list-item tag and one leading bullet marker
\* stripped and its inner markup unchanged, in both sanitized lists; an item
\* that sanitizes to the empty text is not emitted.
ListItemsSanitizedAsStated ==
  OneItemRendered
    => /\ ~last.result.threw
       /\ EmittedItems(last.result.html, KeyContributionsHeading)
            = StatedList(last.detail.keyContributions.items[1])
       /\ EmittedItems(last.result.html, FutureDevHeading)
            = StatedList(last.detail.futureDevelopment.items[1])

OverviewHeading == "<h3 class=\"project-details__content-title\">Project Overview</h3>"

\* No item of the list is left by sanitizeListItem and filter(Boolean).
NoItemSurvives(list) == ~NonEmptyArr(list) \/ SanitizedItems(list.items) = <<>>

\* C24 (as stated): the overview section is absent from the page when the
\* overview is empty or absent, and the key-contributions and
\* future-development sections are absent when no item survives
\* sanitization.
EmptySectionsOmitted ==
  (last.op = "render" /\ ~last.result.threw)
    => /\ ~NonEmptyArr(last.detail.overview)
            => ~Includes(last.result.html, {OverviewHeading})
       /\ NoItemSurvives(last.detail.keyContributions)
            => ~Includes(last.result.html, {KeyContributionsHeading})
       /\ NoItemSurvives(last.detail.futureDevelopment)
            => ~Includes(last.result.html, {FutureDevHeading})

BlockOpen == "<div class=\"project-details__main-content-block\">"
BlockImageOpen == "<div class=\"project-details__showcase-img-cont3\">"

\* What a block element of the page shows first: the chunk after its
\* subtitle or paragraph opener, or the src of its image.
RECURSIVE BlockMarksFrom(_, _)
BlockMarksFrom(html, i) ==
  IF i > Len(html) THEN <<>>
  ELSE (IF html[i] = BlockOpen
        THEN <<IF html[i + 1] = BlockImageOpen THEN html[i + 3] ELSE html[i + 2]>>
        ELSE <<>>)
         \o BlockMarksFrom(html, i + 1)

\* A text field of a block that holds something other than white space.
FieldIsSet(block, text) == ~IsNull(block) /\ text # NullText /\ TrimText(text) # <<>>

\* What the block has to show first, <<>> when all of its fields are empty.
StatedBlockMark(block) ==
  IF IsNull(block) THEN <<>>
  ELSE IF FieldIsSet(block, block.subtitle) THEN <<TrimText(block.subtitle)[1]>>
  ELSE IF ~IsNull(block.image) /\ FieldIsSet(block, block.image.src)
       THEN <<TrimText(block.image.src)[1]>>
  ELSE IF FieldIsSet(block, block.description)
       THEN <<TrimText(block.description)[1]>>
  ELSE <<>>

RECURSIVE StatedBlockMarks(_)
StatedBlockMarks(blocks) ==
  IF blocks = <<>> THEN <<>>
  ELSE StatedBlockMark(Head(blocks)) \o StatedBlockMarks(Tail(blocks))

\* The blocks of the record when it holds an array of them.
StoredBlocks(detail) ==
  IF detail.mainContent.blocks.kind = "array" THEN detail.mainContent.blocks.items
  ELSE <<>>

\* The title is a string of one character or more.
TitleIsNonEmptyString(detail) ==
  /\ ~IsNull(detail.mainContent)
  /\ detail.mainContent.title # NullText
  /\ detail.mainContent.title # <<>>

\* C25 (as stated): the main-content section is on the page exactly when
\* mainContent.title is a non-empty string, and then it holds one block
\* element per block with a non-empty field, in the given order.
MainContentIffTitleNonEmpty ==
  (last.op = "render" /\ ~last.result.threw)
    => /\ Includes(last.result.html, {MainContentOpen})
            <=> TitleIsNonEmptyString(last.detail)
       /\ Includes(last.result.html, {MainContentOpen})
            => BlockMarksFrom(last.result.html, 1)
                 = StatedBlockMarks(StoredBlocks(last.detail))

\* C25 (amended): the main-content section is on the page exactly when
\* mainContent.title is a string that is not empty after trimming, and then
\* it holds one block element per block that has a subtitle, description or
\* image src that is not empty after trimming, in the given order, and none
\* for the other blocks.
MainContentIffTitleTrimmedNonEmpty ==
  (last.op = "render" /\ ~last.result.threw)
    => /\ Includes(last.result.html, {MainContentOpen}) <=> TitleIsSet(last.detail)
       /\ Includes(last.result.html, {MainContentOpen})
            => BlockMarksFrom(last.result.html, 1)
                 = StatedBlockMarks(StoredBlocks(last.detail))
       /\ ~Includes(last.result.html, {MainContentOpen})
            => BlockMarksFrom(last.result.html, 1) = <<>>

\* A main content with a padded title and two blocks, one of them empty,
\* was rendered: the page holds the section and one block element.
PaddedTitleAndEmptyBlockRendered ==
  /\ last.op = "render"
  /\ last.detail = BlocksDetail(<<" ", "Design", " ">>,
                                <<Block(<<" ">>, NullText), Block(NullText, <<"Body">>)>>)
  /\ BlockMarksFrom(last.result.html, 1) = <<"Body">>

OverviewParagraphOpen == "<p class=\"projects__row-content-desc2\">"
OverviewListOpen == "<ul class=\"project-details__desc-list\">"

\* The markup unit that starts at offset i of the page, as <<type, content>>:
\* a paragraph, a heading, a note, a list of one item or an image; a list that
\* holds more than one item is "merged".
UnitAt(html, i) ==
  IF html[i] = OverviewParagraphOpen
  THEN IF html[i + 1] = "<strong>" THEN << <<"heading", html[i + 2]>> >>
       ELSE IF html[i + 1] = "<strong>NOTE:</strong> "
       THEN << <<"note", html[i + 2]>> >>
       ELSE << <<"paragraph", html[i + 1]>> >>
  ELSE IF html[i] = OverviewListOpen
  THEN IF html[i + 1] = "<li>" /\ html[i + 3] = "</li>" /\ html[i + 4] = "</ul>"
       THEN << <<"bullet", html[i + 2]>> >>
       ELSE << <<"merged", html[i + 2]>> >>
  ELSE IF html[i] = BlockImageOpen THEN << <<"image", html[i + 2]>> >>
  ELSE <<>>

RECURSIVE UnitsFrom(_, _)
UnitsFrom(html, i) ==
  IF i > Len(html) THEN <<>> ELSE UnitAt(html, i) \o UnitsFrom(html, i + 1)

\* The unit an overview item has to produce, none for an unknown type.
StatedUnit(item) ==
  IF item.type \in {"paragraph", "heading", "bullet", "note"}
  THEN << <<item.type, item.content[1]>> >>
  ELSE IF item.type = "image" THEN << <<"image", item.src[1]>> >>
  ELSE <<>>

RECURSIVE StatedUnits(_)
StatedUnits(items) ==
  IF items = <<>> THEN <<>>
  ELSE StatedUnit(Head(items)) \o StatedUnits(Tail(items))

\* The overview is the only part of the record that produces such units.
OnlyOverviewSet(detail) ==
  /\ NonEmptyArr(detail.overview)
  /\ IsNull(detail.mainContent)
  /\ ~NonEmptyArr(detail.keyContributions)
  /\ ~NonEmptyArr(detail.futureDevelopment)

\* C26: the page holds one markup unit per overview item of a known type, in
\* the order of the items, every bullet in a list of its own, and nothing for
\* an item of another type.
OverviewRenderedItemByItem ==
  (last.op = "render" /\ ~last.result.threw /\ OnlyOverviewSet(last.detail))
    => UnitsFrom(last.result.html, 1) = StatedUnits(last.detail.overview.items)

\* Two bullets and an item of an unknown type were rendered: two lists.
TwoBulletsTwoLists ==
  /\ last.op = "render"
  /\ last.detail = OverviewDetail(<<OverviewItem("bullet", "B1"),
                                    OverviewItem("bullet", "B2"),
                                    OverviewItem("quote", "Q")>>)
  /\ UnitsFrom(last.result.html, 1) = << <<"bullet", "B1">>, <<"bullet", "B2">> >>

---------------------------------------------------------------------------
(* Properties of the listing rows, checked under SpecPatch                 *)

\* The tags that open a paragraph, and those of them that carry the class
\* projects__row-content-desc.
ParagraphTags ==
  {"<p>", "<p class=\"projects__row-content-desc\">",
   "<p class='projects__row-content-desc'>", "<p class=\"lead\">"}
StyledParagraphTags ==
  {"<p class=\"projects__row-content-desc\">",
   "<p class='projects__row-content-desc'>"}

\* The three outcomes as stated.
StatedDescContent(description) ==
  IF ~Includes(description, ParagraphTags)
  THEN <<"<p class=\"projects__row-content-desc\">">> \o description \o <<"</p>">>
  ELSE IF Includes(description, StyledParagraphTags)
  THEN description
  ELSE <<"<div class=\"projects__row-content-desc\">">> \o description
         \o <<"</div>">>

\* What the first row of the listing holds between its title and its link.
EmittedDescription(text) ==
  LET h == IndexOf(text, "<h3 class=\"projects__row-content-title\">", 1)
      a == IndexOf(text, "<a href=\"", h)
  IN  SubSeq(text, h + 3, a - 1)

\* C14 (as stated): in a listing row a description with no paragraph tag is
\* wrapped in one <p class="projects__row-content-desc">, one with a
\* paragraph tag that carries the class is emitted unchanged, and one with a
\* paragraph tag without the class is wrapped whole in one
\* <div class="projects__row-content-desc">.
DescriptionWrappedAsStated ==
  (last.op = "patch" /\ last.wrote /\ Len(projectsFile.projects) = 1)
    => EmittedDescription(indexHtml.text)
         = StatedDescContent(projectsFile.projects[1].description)

RowTitleOpen == "<h3 class=\"projects__row-content-title\">"

\* The offsets of the section written at the start marker: from the marker
\* to the first '</section>' after it.
WrittenSection(text) ==
  LET start == IndexOf(text, projectsStartMarker, 1)
  IN  start..IndexOf(text, SectionClose, start)

\* The titles of the rows of the written section, in the order of the text.
RECURSIVE TitlesFrom(_, _, _)
TitlesFrom(text, i, end) ==
  IF i > end THEN <<>>
  ELSE (IF text[i] = RowTitleOpen THEN <<text[i + 1]>> ELSE <<>>)
         \o TitlesFrom(text, i + 1, end)

RowTitles(text) ==
  LET section == WrittenSection(text)
  IN  TitlesFrom(text, SetMin(section), SetMax(section))

\* C21: the section generateIndexHtml writes holds one row per project of
\* the collection, row i carrying the title of project i.
RowsMirrorCollection ==
  (last.op = "patch" /\ last.wrote)
    => RowTitles(indexHtml.text)
         = [i \in 1..Len(projectsFile.projects) |->
              projectsFile.projects[i].title[1]]

\* Three projects, ordered neither by id nor by title, were listed.
ThreeRowsWritten ==
  /\ last.op = "patch"
  /\ last.wrote
  /\ Len(projectsFile.projects) = 3
  /\ RowTitles(indexHtml.text) = <<"Gamma", "Alpha", "Beta">>

\* What follows the written section in the text: the part of the text read
\* that the call kept after the region it replaced.
KeptTail(text) == Substring(text, SetMax(WrittenSection(text)) + 1)

\* The end of the replaced region as stated: the offset after the last
\* '</section>' that starts in [start, next), else next.
StatedRegionEnd(text, start, next) ==
  LET closes == {i \in start..(next - 1) : text[i] = SectionClose}
  IN  IF \A i \in start..(next - 1) : text[i] # SectionClose THEN next
      ELSE 1 + CHOOSE i \in closes : \A j \in closes : j <= i

\* C23: a call that writes replaces the text from the start marker up to the
\* end of the last '</section>' between the start marker and the script
\* marker, or up to the script marker when there is none; that end lies
\* between the two markers.
ReplacedRegionEndsAtLastClose ==
  (last.op = "patch" /\ last.wrote)
    => LET start == IndexOf(last.before, projectsStartMarker, 1)
           next == IndexOf(last.before, nextSectionStartMarker, start)
           end == StatedRegionEnd(last.before, start, next)
       IN  /\ SubSeq(indexHtml.text, 1, start - 1) = SubSeq(last.before, 1, start - 1)
           /\ KeptTail(indexHtml.text) = Substring(last.before, end)
           /\ start <= end
           /\ end <= next

\* C23 happens: the text read had two '</section>' and then text between the
\* markers, and the call wrote.
TwoClosesThenTextReplaced ==
  /\ last.op = "patch"
  /\ last.wrote
  /\ last.before = <<projectsStartMarker, SectionClose, SectionClose, "text",
                     nextSectionStartMarker>>
  /\ KeptTail(indexHtml.text) = <<"text", nextSectionStartMarker>>

---------------------------------------------------------------------------
(* Properties of the requests, checked under Spec                          *)

\* The request just answered was op and its status was status.
Answered(op, status) == last'.op = op /\ last'.status = status

\* C15 (as stated): after a successful DELETE /api/projects/:id the details
\* store holds no record of the deleted id, and the project's detail file is
\* gone when its detailPage names a generated page inside the site root.
ProjectDeleteCascades ==
  [][Answered("delete-project", 200)
       => \A i \in 1..Len(projectsFile.projects) :
            LET project == projectsFile.projects[i]
            IN  WithId(projectsFile'.projects, project.id) = {}
                  => /\ WithProjectId(detailsFile'.details, project.id) = {}
                     /\ (NamesGeneratedPage(project.detailPage)
                         /\ UnderRoot(Target(project.detailPage)))
                          => ~Exists(files', Target(project.detailPage))]_vars

\* C16 (as stated): no two entries of the projects collection have the same
\* id and no two entries of the details collection have the same projectId.
IdsAreUnique ==
  /\ \A i, j \in 1..Len(projectsFile.projects) :
       projectsFile.projects[i].id = projectsFile.projects[j].id => i = j
  /\ \A i, j \in 1..Len(detailsFile.details) :
       detailsFile.details[i].projectId = detailsFile.details[j].projectId
         => i = j

\* C17 (as stated): a PUT /api/projects/:id that finds the project leaves
\* every stored id as it was, and a POST /api/projects stores the new
\* project under the creation timestamp, whatever the body holds.
IdsAreImmutable ==
  [][/\ (last'.op = "update-project" /\ last'.status # 404)
          => /\ Len(projectsFile'.projects) = Len(projectsFile.projects)
             /\ \A i \in 1..Len(projectsFile.projects) :
                  projectsFile'.projects[i].id = projectsFile.projects[i].id
     /\ last'.op = "create-project"
          => projectsFile'.projects[1].id = clock']_vars

\* The request just answered found nothing under the id it named: a
\* project request or a detail request while no project is stored, a page
\* generation while no record is stored, or a DELETE of a detail record
\* that removed none.
NamedNothing ==
  \/ /\ last'.op \in {"update-project", "delete-project", "save-detail",
                      "generate-detail"}
     /\ projectsFile.projects = <<>>
  \/ /\ last'.op = "generate-detail"
     /\ detailsFile.details = <<>>
  \/ /\ last'.op = "delete-detail"
     /\ detailsFile'.details = detailsFile.details

\* C19 (as stated): a request that names a project or a detail record that
\* is not stored is answered with a 4xx status and writes neither record
\* file nor any HTML file.
NotFoundLeavesStoreUnchanged ==
  [][NamedNothing
       => /\ last'.status \in 400..499
          /\ ~last'.savedDetails
          /\ projectsFile' = projectsFile
          /\ detailsFile' = detailsFile
          /\ files' = files
          /\ indexHtml' = indexHtml]_vars

\* C19, the DELETE of a record that is not stored alone, the record files
\* being there.
DeleteOfMissingDetailRefused ==
  [][(/\ last'.op = "delete-detail"
      /\ detailsFile.present
      /\ detailsFile'.details = detailsFile.details)
       => last'.status \in 400..499 /\ ~last'.savedDetails]_vars

\* A text field that holds something other than white space.
TextIsSet(text) == text # NullText /\ TrimText(text) # <<>>

\* The main content of the record has a description, a conclusion or a
\* block, and no title.
UntitledMainContentSet(detail) ==
  /\ ~IsNull(detail.mainContent)
  /\ ~TextIsSet(detail.mainContent.title)
  /\ \/ TextIsSet(detail.mainContent.description)
     \/ TextIsSet(detail.mainContent.conclusion)
     \/ NonEmptyArr(detail.mainContent.blocks)

\* C20 (as stated): no record whose main content has a field set and no
\* title is ever persisted to the details store.
UntitledMainContentNeverStored ==
  \A i \in 1..Len(detailsFile.details) :
    ~UntitledMainContentSet(detailsFile.details[i])

---------------------------------------------------------------------------
(* Properties of POST /api/projects, checked under SpecCreate               *)

\* C18: when a create request has been answered, with success or with an
\* error, the new project is the first of the projects store and the details
\* store holds a record whose projectId is its id.
ProjectAndDetailCreatedTogether ==
  last.op = "create-project"
    => /\ projectsFile.present
       /\ detailsFile.present
       /\ Len(projectsFile.projects) >= 1
       /\ WithProjectId(detailsFile.details, projectsFile.projects[1].id) # {}

\* A create answered with an error after both stores were written.
FailedCreateStoredBoth ==
  /\ last.op = "create-project"
  /\ last.status = 500
  /\ projectsFile.projects[1].id = clock
  /\ detailsFile.details[Len(detailsFile.details)]
       = DefaultDetail(projectsFile.projects[1], CurrentYear)

\* How often the project stands in the list.
Occurrences(projects, project) ==
  Cardinality({i \in 1..Len(projects) : projects[i] = project})

\* C28 (as stated): POST /api/projects/reorder only permutes: whatever the
\* projectIds sent, every project stands in the stored collection afterwards
\* as often as before.
ReorderOnlyPermutes ==
  [][last'.op = "reorder"
       => \A project \in {projectsFile.projects[i] : i \in 1..Len(projectsFile.projects)}
                        \cup {projectsFile'.projects[i] :
                                i \in 1..Len(projectsFile'.projects)} :
            Occurrences(projectsFile'.projects, project)
              = Occurrences(projectsFile.projects, project)]_vars

---------------------------------------------------------------------------
(* Properties of two create requests in flight, checked under SpecRace     *)

Other(r) == IF r = 1 THEN 2 ELSE 1

\* Both requests were answered with success.
BothSucceeded ==
  \A r \in Requests : requests[r].pc = "done" /\ requests[r].status = 200

\* projects.json holds the project request r created.
Holds(projects, r) ==
  \E i \in 1..Len(projects) : <<projects[i]>> = requests[r].newProject

\* Request r loaded projects.json after the other request had written it.
LoadedAfterOther(r) == Holds(requests[r].data, Other(r))

\* C22: once both creates have been answered with success, projects.json
\* holds both new projects exactly when one of the requests loaded the file
\* after the other had written it; when both loaded first, the file holds
\* the project of the later writer only.
UpdateLostIffBothLoadedFirst ==
  BothSucceeded
    => /\ \E r \in Requests : Holds(projectsFile.projects, r)
       /\ (\A r \in Requests : Holds(projectsFile.projects, r))
            <=> (\E r \in Requests : LoadedAfterOther(r))

\* Both creates were answered with success and projects.json holds one of
\* the two projects.
OneCreateLost ==
  /\ BothSucceeded
  /\ \E r \in Requests : ~Holds(projectsFile.projects, r)

\* The detailPage values stored in projects.json, as far as it can be read.
StoredDetailPages ==
  IF projectsFile.projects = Unparsable THEN {}
  ELSE {projectsFile.projects[i].detailPage : i \in 1..Len(projectsFile.projects)}

\* The request got its number in this step.
GotNumber(r) == requests[r].pc = "readdir" /\ requests'[r].pc = "saveProjects"

\* C29 (as stated): when getNextProjectNumber returns N to a create request
\* without detailPage, no stored project has the detailPage ./project-N.html
\* and the site root holds no file project-N.html, also while another create
\* request is in flight.
AutoPathIsFresh ==
  [][\A r \in Requests :
       GotNumber(r)
         => LET detailPage == AutoDetailPage(requests'[r].projectNumber)
            IN  /\ detailPage \notin StoredDetailPages
                /\ ~Exists(files, DetailFilePath(detailPage))]_vars

\* The steps that load projects.json and write it in no other way.
LoadsProjects == {"loadProjects", "getNextProjectNumber", "generateIndexHtml"}

\* C27 (as stated): a load writes the record file only when the file is
\* missing: a step that loads projects.json and finds the file there, be it
\* half written by the other request or unparsable, leaves it as it was, and
\* so does a load of project-details.json.
LoadWritesOnlyWhenMissing ==
  [][/\ (last'.op \in LoadsProjects /\ projectsFile.present)
          => projectsFile' = projectsFile
     /\ (last'.op = "loadProjectDetails" /\ detailsFile.present)
          => detailsFile' = detailsFile]_vars

---------------------------------------------------------------------------
(* Properties of the detail editor, checked under SpecEditor               *)

\* The item sent has the type of the stored one and, unless it is an image,
\* its content.
SameItem(stored, sent) ==
  /\ sent.type = stored.type
  /\ stored.type # "image" => sent.content = stored.content

\* C30 (as stated): the record sent by a save that follows the opening of
\* the editor with nothing typed has the overview items of the stored
\* record, in their order and with their types, and as role the stored
\* role, or the stored projectType when there is no role.
EditorRoundTripKeepsOverview ==
  last.op = "saveDetailPage"
    => LET stored == detailsFile.details[1]
           meta == MetaOf(stored)
           sent == last.sent
       IN  /\ Len(sent.overview.items) = Len(stored.overview.items)
           /\ \A i \in 1..Len(stored.overview.items) :
                SameItem(stored.overview.items[i], sent.overview.items[i])
           /\ sent.meta.role
                = (IF meta.role # <<>> THEN meta.role ELSE meta.projectType)

=============================================================================
